---- MODULE Spec2Model ----
(***************************************************************************)
(* A model of gen0cide/osqt: the extraction of OSQuery table definitions   *)
(* from the call syntax of .table files (table.go, schema.go), the         *)
(* directory ingestion pipeline of Parser.ParseDirectory and the           *)
(* export / re-import of the Namespace map.                                *)
(***************************************************************************)
EXTENDS Integers, Sequences, FiniteSets, TLC

VARIABLES
    \* ---- one table file being visited (table.go, schema.go) ----
    vfile,      \* the top-level calls of the file, in file order
    vpos,       \* number of top-level calls already walked
    vtable,     \* the *Table that past.Walk(gpyast, t.Visit) is filling
    vstatus,    \* "running" | "panicked" (panic(err) or a runtime panic)
    vbuilt      \* history: the calls Schema.ExtractSchema returned nil for,
                \* each with the Schema it left

VARIABLES
    \* ---- one call of Parser.ParseDirectory (the ingestion pipeline) ----
    tree,           \* the directory entries below the walked location
    walked,         \* the paths godirwalk has passed already
    walkerPc,       \* the walker task: "idle" | "walking" | "errored" | "closing" | "done"
    walkErr,        \* the error godirwalk.Walk returned, Nil when none
    reschan,        \* the buffered hand-off channel of *SourceFile
    reschanClosed,  \* close(reschan) has run
    errchan,        \* chan error, capacity 1
    finchan,        \* chan bool, capacity 1
    mutex,          \* holder of the Parser's write lock: "none" | "aggregator"
    aggPc,          \* the record keeping task: "idle" | "lock" | "range" | "unlock" | "finish" | "done"
    callerPc,       \* ParseDirectory itself: "start" | "select" | "returned"
    callerRet,      \* what ParseDirectory returned
    Namespaces,     \* Parser.Namespaces
    proc,           \* the process: "running" | "panicked" | "exited"
    emitted,        \* history: the tables sent on reschan
    inserted        \* history: the tables the aggregator put into a Namespace

VARIABLES
    \* ---- export of the Namespaces and re-import into a new Parser ----
    exported,       \* the written schema file, Nil before the export
    decoded,        \* the map[string]*Namespace that Unmarshal filled
    fresh,          \* the Namespaces of the new Parser
    importPc        \* "new" | "injected"

VARIABLES
    \* ---- Schema.ExtractSchema / ParseLambda on one platform argument ----
    larg,           \* node.Args[0] of the extended_schema call
    lret            \* Nil before the call, then what it returned and the Schema

VARIABLES
    \* ---- one virtual.Database and the goroutines that call it ----
    dbCallers,      \* the goroutines
    dbInputs,       \* the <<table name, platform filter>> pairs the callers pass
    dbPc,           \* per goroutine: "idle" or the point its call has reached
    dbCall,         \* per goroutine: its current or last call, with what it saw
    dbRet,          \* per goroutine: what its last call returned
    dbInitialized,  \* Database.initialized
    dbSchemas,      \* Database.schemas, the schema manifest
    dbMemtables,    \* Database.memtables
    dbMutex,        \* holder of the Database's write lock, "none" when free
    dbEngines,      \* history: number of times d.eng was assigned
    dbStarted       \* history: number of calls started

vvars == <<vfile, vpos, vtable, vstatus, vbuilt>>
lvars == <<larg, lret>>
bvars == <<dbCallers, dbInputs, dbPc, dbCall, dbRet, dbInitialized, dbSchemas, dbMemtables,
           dbMutex, dbEngines, dbStarted>>
ivars == <<exported, decoded, fresh, importPc>>
dvars == <<tree, walked, walkerPc, walkErr, reschan, reschanClosed, errchan,
           finchan, mutex, aggPc, callerPc, callerRet, Namespaces, proc,
           emitted, inserted>>
\* the ingestion pipeline without the process
wvars == <<tree, walked, walkerPc, walkErr, reschan, reschanClosed, errchan,
           finchan, mutex, aggPc, callerPc, callerRet, Namespaces,
           emitted, inserted>>
vars == <<vvars, dvars, ivars, lvars, bvars>>

----------------------------------------------------------------------------
(* Bounds *)
MaxCalls == 2        \* longest generated table file, in top-level calls
MaxFiles == 3        \* most directory entries below the walked location
ResChanCap == 2      \* modelled capacity of reschan (make(chan *SourceFile, 1000))
MaxOperands == 2     \* most operands of a generated lambda body
MaxDbCalls == 3      \* most calls started on the Database

----------------------------------------------------------------------------
(* The gpython syntax tree, as the node kinds the extractor inspects *)

Name(id) == [kind |-> "Name", id |-> id]
Str(s) == [kind |-> "Str", s |-> s]
NameConstant(v) == [kind |-> "NameConstant", value |-> v]
Num(n) == [kind |-> "Num", n |-> n]
List(elts) == [kind |-> "List", elts |-> elts]
Keyword(arg, value) == [arg |-> arg, value |-> value]
Call(func, args, keywords) ==
    [kind |-> "Call", func |-> func, args |-> args, keywords |-> keywords]
BoolOp(op, values) == [kind |-> "BoolOp", op |-> op, values |-> values]
Lambda(body) == [kind |-> "Lambda", body |-> body]

----------------------------------------------------------------------------
(* Static tables of schema.go *)

TableCategories ==
    [c \in {"WINDOWS", "LINUX", "POSIX", "DARWIN", "FREEBSD"} |->
        CASE c = "WINDOWS" -> <<"windows", "win32", "cygwin">>
          [] c = "LINUX"   -> <<"linux">>
          [] c = "POSIX"   -> <<"linux", "darwin", "freebsd">>
          [] c = "DARWIN"  -> <<"darwin">>
          [] c = "FREEBSD" -> <<"freebsd">>]

CanonicalPlatforms ==
    [d \in {"specs", "darwin", "linux", "freebsd", "posix", "windows",
            "utility", "yara", "smart", "lldpd", "sleuthkit", "macwin",
            "linwin"} |->
        CASE d = "specs"     -> "All Platforms"
          [] d = "darwin"    -> "Darwin (Apple OS X)"
          [] d = "linux"     -> "Ubuntu, CentOS"
          [] d = "freebsd"   -> "FreeBSD"
          [] d = "posix"     -> "POSIX-compatible Plaforms"
          [] d = "windows"   -> "Microsoft Windows"
          [] d = "utility"   -> "Utility"
          [] d = "yara"      -> "YARA"
          [] d = "smart"     -> "SMART"
          [] d = "lldpd"     -> "LLDPD"
          [] d = "sleuthkit" -> "The Sleuth Kit"
          [] d = "macwin"    -> "MacOS and Windows"
          [] d = "linwin"    -> "Linux and Windows"]

----------------------------------------------------------------------------
(* Go values *)

\* a nil pointer
Nil == [nil |-> TRUE]
IsNil(x) == "nil" \in DOMAIN x

Range(s) == {s[i] : i \in DOMAIN s}

\* an interface{} value stored in Options / Attributes / ForeignKeys, with its
\* dynamic type: the py.Object of a True / False / None constant, a Go string,
\* and what Unmarshal stores for a boolean and for an empty object
BoolValue(b) == [t |-> "py.Bool", v |-> b]
NoneValue == [t |-> "py.NoneType", v |-> FALSE]
StringValue(s) == [t |-> "string", v |-> s]
GoBool(b) == [t |-> "bool", v |-> b]
GoEmptyMap == [t |-> "map[string]interface {}", v |-> FALSE]

\* the empty map literal map[string]interface{}{}
EmptyMap == [k \in {} |-> Nil]

\* m[k] = v
MapSet(m, k, v) == [x \in (DOMAIN m) \cup {k} |-> IF x = k THEN v ELSE m[x]]

\* every order in which `for key := range tmp` can enumerate the keys
MapIterationOrders(S) ==
    {p \in [1..Cardinality(S) -> S] : Range(p) = S}

\* one fixed enumeration of a set, the order being re-drawn by the caller
RECURSIVE SetToSeq(_)
SetToSeq(S) ==
    IF S = {} THEN <<>>
    ELSE LET x == CHOOSE y \in S : TRUE IN <<x>> \o SetToSeq(S \ {x})

----------------------------------------------------------------------------
(* Column *)

NewEmptyColumn ==
    [Index |-> 0, Name |-> "", Type |-> "", Description |-> "",
     Aliases |-> <<>>, Options |-> EmptyMap, nils |-> {}]

----------------------------------------------------------------------------
(* Schema *)

NewEmptySchema(t) ==
    [Table |-> t, Platforms |-> <<>>, Extended |-> FALSE, Columns |-> <<>>,
     ForeignKeys |-> <<>>, nils |-> {}]

\* the type switch that copies keyword arguments into a map
RECURSIVE KeywordsInto(_, _)
KeywordsInto(m, keywords) ==
    IF keywords = <<>> THEN m
    ELSE LET kw == Head(keywords)
             m2 == CASE kw.value.kind = "NameConstant" ->
                          MapSet(m, kw.arg, kw.value.value)
                     [] kw.value.kind = "Str" ->
                          MapSet(m, kw.arg, StringValue(kw.value.s))
                     [] kw.value.kind = "Name" ->
                          MapSet(m, kw.arg, StringValue(kw.value.id))
                     [] OTHER -> m
         IN KeywordsInto(m2, Tail(keywords))

\* a merge that forgets the platforms the schema already has
MergePlatformsOverwrite(s, platformList) ==
    [s EXCEPT !.Platforms = SetToSeq(Range(platformList))]

\* tmp := set(s.Platforms) + set(platformList); s.Platforms = keys(tmp)
MergePlatforms(s, platformList) ==
    [s EXCEPT !.Platforms = SetToSeq(Range(s.Platforms) \cup Range(platformList))]

Ok(s) == [status |-> "ok", s |-> s]
Err(s) == [status |-> "err", s |-> s]
Panic(s) == [status |-> "panic", s |-> s]

RECURSIVE ParseLambdaValues(_, _)
ParseLambdaValues(s, values) ==
    IF values = <<>> THEN Ok(s)
    ELSE LET valast == Head(values) IN
         IF valast.kind # "Call" THEN Err(s)
         ELSE IF valast.func.kind # "Name" THEN Err(s)
         ELSE IF valast.func.id \notin DOMAIN TableCategories THEN Err(s)
         ELSE ParseLambdaValues(
                  MergePlatforms(s, TableCategories[valast.func.id]),
                  Tail(values))

ParseLambda(s, lambda) ==
    IF lambda.body.kind # "BoolOp" THEN Err(s)
    ELSE IF lambda.body.op # "Or" THEN Err(s)
    ELSE ParseLambdaValues(s, lambda.body.values)

\* fmt.Sprintf("%v", platformArg.Value) of a True / False / None constant
SprintfV(v) == IF v.t = "py.NoneType" THEN "{}" ELSE IF v.v THEN "true" ELSE "false"

\* the switch over node.Args[0] of an extended_schema call
ExtractPlatforms(s, platformArg) ==
    LET lookup(key) ==
            IF key \notin DOMAIN TableCategories THEN Err(s)
            ELSE Ok(MergePlatforms(s, TableCategories[key]))
    IN CASE platformArg.kind = "NameConstant" -> lookup(SprintfV(platformArg.value))
         [] platformArg.kind = "Str" -> lookup(platformArg.s)
         [] platformArg.kind = "Name" -> lookup(platformArg.id)
         [] platformArg.kind = "Lambda" -> ParseLambda(s, platformArg)
         [] OTHER -> Err(s)

\* a one-based column index
ColumnIndexOneBased(colidx) == colidx + 1

\* col.Index = colidx
ColumnIndex(colidx) == colidx

\* a comparison that never recognises a ForeignKey element
IsForeignKeyMisspelt(id) == id = "Foreign_Key"

\* string(funcName.Id) == "ForeignKey"
IsForeignKey(id) == id = "ForeignKey"

\* one iteration of `for colidx, coldef := range arglist.Elts`
ExtractElement(s, colidx, coldef) ==
    IF coldef.kind # "Call" THEN Err(s)
    ELSE IF coldef.func.kind # "Name" THEN Err(s)
    ELSE IF IsForeignKey(coldef.func.id)
         THEN Ok([s EXCEPT !.ForeignKeys =
                      Append(@, KeywordsInto(EmptyMap, coldef.keywords))])
    ELSE IF Len(coldef.args) < 1 THEN Ok(s)
    ELSE IF Len(coldef.args) < 3 THEN Panic(s)   \* Args[1] / Args[2] out of range
    ELSE LET a0 == coldef.args[1]
             a1 == coldef.args[2]
             a2 == coldef.args[3]
             col == [NewEmptyColumn EXCEPT
                       !.Index = ColumnIndex(colidx),
                       !.Name = IF a0.kind = "Str" THEN a0.s ELSE @,
                       !.Type = IF a1.kind = "Name" THEN a1.id ELSE @,
                       !.Description = IF a2.kind = "Str" THEN a2.s ELSE @,
                       !.Options = KeywordsInto(@, coldef.keywords)]
         IN Ok([s EXCEPT !.Columns = Append(@, col)])

RECURSIVE ExtractElements(_, _, _)
ExtractElements(s, elts, colidx) ==
    IF colidx >= Len(elts) THEN Ok(s)
    ELSE LET next(r) == IF r.status # "ok" THEN r
                        ELSE ExtractElements(r.s, elts, colidx + 1)
         IN next(ExtractElement(s, colidx, elts[colidx + 1]))

\* a Schema that keeps Extended as it was
MarkExtendedMissing(s) == s

\* s.Extended = true
MarkExtended(s) == [s EXCEPT !.Extended = TRUE]

\* Schema.ExtractSchema; the order of s.Platforms is re-drawn by the caller
SchemaExtractSchema(s, node) ==
    IF node.func.kind # "Name" THEN Err(s)
    ELSE LET ext == node.func.id = "extended_schema"
             argsIndex == IF ext THEN 1 ELSE 0
             platforms(s1) ==
                 IF ~ext THEN Ok(s1)
                 ELSE IF Len(node.args) < 1 THEN Panic(s1)
                 ELSE ExtractPlatforms(s1, node.args[1])
             columns(p) ==
                 IF p.status # "ok" THEN p
                 ELSE IF Len(node.args) < argsIndex + 1 THEN Panic(p.s)
                 ELSE IF node.args[argsIndex + 1].kind # "List" THEN Err(p.s)
                 ELSE ExtractElements(p.s, node.args[argsIndex + 1].elts, 0)
         IN columns(platforms(IF ext THEN MarkExtended(s) ELSE s))

----------------------------------------------------------------------------
(* Table *)

NewEmptyTable(addr) ==
    [addr |-> addr, Namespace |-> Nil, NamespaceID |-> "", Name |-> "",
     Aliases |-> <<>>, Description |-> "", Schema |-> Nil,
     Attributes |-> EmptyMap, Implementation |-> "", FuzzPaths |-> <<>>,
     ExtendedSchemas |-> EmptyMap, Examples |-> <<>>, nils |-> {}]

TOk(t) == [status |-> "ok", t |-> t]
TErr(t) == [status |-> "err", t |-> t]
TPanic(t) == [status |-> "panic", t |-> t]

\* append every element to a list until one is not a *past.Str
RECURSIVE AppendStrings(_, _)
AppendStrings(acc, elts) ==
    IF elts = <<>> THEN Ok(acc)
    ELSE IF Head(elts).kind # "Str" THEN Err(acc)
    ELSE AppendStrings(Append(acc, Head(elts).s), Tail(elts))

ExtractFuzzPaths(t, node) ==
    IF Len(node.args) < 1 THEN TPanic(t)
    ELSE IF node.args[1].kind # "List" THEN TErr(t)
    ELSE LET r == AppendStrings(t.FuzzPaths, node.args[1].elts)
             t2 == [t EXCEPT !.FuzzPaths = r.s]
         IN IF r.status = "ok" THEN TOk(t2) ELSE TErr(t2)

ExtractExamples(t, node) ==
    IF Len(node.args) < 1 THEN TPanic(t)
    ELSE IF node.args[1].kind # "List" THEN TErr(t)
    ELSE LET r == AppendStrings(t.Examples, node.args[1].elts)
             t2 == [t EXCEPT !.Examples = r.s]
         IN IF r.status = "ok" THEN TOk(t2) ELSE TErr(t2)

ExtractAttributes(t, node) ==
    LET attrs == IF "Attributes" \in t.nils THEN EmptyMap ELSE t.Attributes
    IN TOk([t EXCEPT !.Attributes = KeywordsInto(attrs, node.keywords),
                     !.nils = @ \ {"Attributes"}])

\* Table.ExtractSchema
\* a check that never finds a Schema
SchemaExistsIgnored(t) == FALSE

\* t.Schema != nil
SchemaExists(t) == ~IsNil(t.Schema)

TableExtractSchema(t, node) ==
    IF SchemaExists(t) THEN TErr(t)
    ELSE LET assigned(r) == [status |-> r.status, t |-> [t EXCEPT !.Schema = r.s]]
         IN assigned(SchemaExtractSchema(NewEmptySchema(t.addr), node))

\* the order of s.Platforms left by the last `for key := range tmp`
WithOrder(s, ord) ==
    IF Range(ord) = Range(s.Platforms) /\ Len(ord) = Len(s.Platforms)
    THEN [s EXCEPT !.Platforms = ord] ELSE s

\* t.ExtendedSchemas[platform] = extSchema for every platform
\* a map that keeps the schema a key already has
StoreExtendedOnce(ext, platform, extSchema) ==
    IF platform \in DOMAIN ext THEN ext ELSE MapSet(ext, platform, extSchema)

\* t.ExtendedSchemas[platform] = extSchema
StoreExtended(ext, platform, extSchema) == MapSet(ext, platform, extSchema)

RECURSIVE RegisterExtended(_, _, _)
RegisterExtended(ext, platforms, extSchema) ==
    IF platforms = <<>> THEN ext
    ELSE RegisterExtended(StoreExtended(ext, Head(platforms), extSchema),
                          Tail(platforms), extSchema)

ExtractExtendedSchema(t, node, ord) ==
    LET registered(extSchema) ==
            TOk([t EXCEPT !.ExtendedSchemas =
                     RegisterExtended(@, extSchema.Platforms, extSchema)])
        extracted(r) ==
            IF r.status # "ok" THEN [status |-> r.status, t |-> t]
            ELSE registered(WithOrder(r.s, ord))
    IN extracted(SchemaExtractSchema(NewEmptySchema(t.addr), node))

ExtractImplementation(t, node) ==
    IF Len(node.args) < 1 THEN TPanic(t)
    ELSE IF node.args[1].kind # "Str" THEN TErr(t)
    ELSE TOk([t EXCEPT !.Implementation = node.args[1].s])

ExtractDescription(t, node) ==
    IF Len(node.args) < 1 THEN TPanic(t)
    ELSE IF node.args[1].kind # "Str" THEN TErr(t)
    ELSE TOk([t EXCEPT !.Description = node.args[1].s])

\* the elements of an aliases list that are strings, in order
RECURSIVE AliasNames(_)
AliasNames(elts) ==
    IF elts = <<>> THEN <<>>
    ELSE (IF Head(elts).kind = "Str" THEN <<Head(elts).s>> ELSE <<>>)
         \o AliasNames(Tail(elts))

RECURSIVE KeywordAliases(_)
KeywordAliases(keywords) ==
    IF keywords = <<>> THEN <<>>
    ELSE LET kw == Head(keywords) IN
         (IF kw.arg = "aliases" /\ kw.value.kind = "List"
          THEN AliasNames(kw.value.elts) ELSE <<>>)
         \o KeywordAliases(Tail(keywords))

ExtractNames(t, node) ==
    IF Len(node.args) < 1 THEN TPanic(t)
    ELSE IF node.args[1].kind # "Str" THEN TErr(t)
    ELSE TOk([t EXCEPT !.Name = node.args[1].s,
                       !.Aliases = @ \o KeywordAliases(node.keywords)])

\* Table.VisitorBranch: the table, whether a handler failed (panic(err) or a
\* runtime panic) and the returned "walk the children" flag
VisitorBranch(t, node, ord) ==
    IF node.func.kind # "Name"
    THEN [t |-> t, status |-> "ok", descend |-> FALSE]
    ELSE LET funcName == node.func.id
             handled(r, d) ==
                 [t |-> r.t,
                  status |-> IF r.status = "ok" THEN "ok" ELSE "panic",
                  descend |-> d]
         IN CASE funcName = "table_name" -> handled(ExtractNames(t, node), TRUE)
              [] funcName = "description" -> handled(ExtractDescription(t, node), TRUE)
              [] funcName = "schema" -> handled(TableExtractSchema(t, node), TRUE)
              [] funcName = "Column" -> handled(TOk(t), FALSE)
              [] funcName = "attributes" -> handled(ExtractAttributes(t, node), FALSE)
              [] funcName = "implementation" ->
                     handled(ExtractImplementation(t, node), TRUE)
              [] funcName = "fuzz_paths" -> handled(ExtractFuzzPaths(t, node), FALSE)
              [] funcName = "extended_schema" ->
                     handled(ExtractExtendedSchema(t, node, ord), FALSE)
              [] funcName = "examples" -> handled(ExtractExamples(t, node), FALSE)
              [] funcName = "ForeignKey" -> handled(TOk(t), FALSE)
              [] OTHER -> handled(TOk(t), FALSE)

\* the nodes past.Walk visits below a node
KeywordValues(keywords) == [i \in DOMAIN keywords |-> keywords[i].value]

Children(node) ==
    CASE node.kind = "Call" -> <<node.func>> \o node.args \o KeywordValues(node.keywords)
      [] node.kind = "List" -> node.elts
      [] node.kind = "Lambda" -> <<node.body>>
      [] node.kind = "BoolOp" -> node.values
      [] OTHER -> <<>>

\* past.Walk(node, t.Visit): Table.Visit on the node, then on its children
\* when Visit returned true
RECURSIVE Walk(_, _, _)
RECURSIVE WalkAll(_, _, _)
Walk(t, node, ord) ==
    IF node.kind = "Call"
    THEN LET visited(r) ==
                 IF r.status # "ok" \/ ~r.descend
                 THEN [t |-> r.t, status |-> r.status]
                 ELSE WalkAll(r.t, Children(node), ord)
         IN visited(VisitorBranch(t, node, ord))
    ELSE WalkAll(t, Children(node), ord)

WalkAll(t, nodes, ord) ==
    IF nodes = <<>> THEN [t |-> t, status |-> "ok"]
    ELSE LET next(r) == IF r.status # "ok" THEN r
                        ELSE WalkAll(r.t, Tail(nodes), ord)
         IN next(Walk(t, Head(nodes), ord))

----------------------------------------------------------------------------
(* The table files the visitor is run on *)

ColumnCall(name, type, desc, keywords) ==
    Call(Name("Column"), <<Str(name), Name(type), Str(desc)>>, keywords)

GroupsColumns ==
    List(<<ColumnCall("gid", "BIGINT", "Unsigned int64 group ID",
                      <<Keyword("index", NameConstant(BoolValue(TRUE)))>>),
           ColumnCall("gid_signed", "BIGINT", "A signed int64 version of gid", <<>>),
           ColumnCall("groupname", "TEXT", "Canonical local group name", <<>>)>>)

ForeignKeyCall ==
    Call(Name("ForeignKey"), <<>>,
         <<Keyword("column", Str("uid")), Keyword("table", Name("users"))>>)

OtherColumns ==
    List(<<ColumnCall("pid", "INTEGER", "Process ID", <<>>)>>)

\* a column list with a ForeignKey between two columns
ForeignKeyColumns ==
    List(<<ColumnCall("uid", "BIGINT", "User ID", <<>>),
           ForeignKeyCall,
           ColumnCall("path", "TEXT", "Path", <<Keyword("hidden", NameConstant(BoolValue(TRUE))),
                                               Keyword("additional", Name("yes"))>>)>>)

\* a column list whose first element has no positional argument
SkippedColumns ==
    List(<<Call(Name("Column"), <<>>, <<Keyword("name", Str("x"))>>),
           ColumnCall("pid", "INTEGER", "Process ID", <<>>)>>)

TableNameCalls ==
    {Call(Name("table_name"), <<Str("groups")>>, <<>>),
     Call(Name("table_name"), <<Str("foo")>>,
          <<Keyword("aliases", List(<<Str("f"), Name("g"), Str("h")>>)),
            Keyword("other", Str("x"))>>),
     Call(Name("table_name"), <<Name("foo")>>, <<>>)}

DescriptionCalls ==
    {Call(Name("description"), <<Str("Local system groups.")>>, <<>>),
     Call(Name("description"), <<Num(1)>>, <<>>)}

SchemaCalls ==
    {Call(Name("schema"), <<GroupsColumns>>, <<>>),
     Call(Name("schema"), <<ForeignKeyColumns>>, <<>>),
     Call(Name("schema"), <<SkippedColumns>>, <<>>),
     Call(Name("schema"), <<List(<<>>)>>, <<>>),
     Call(Name("schema"), <<Str("gid")>>, <<>>),
     Call(Name("schema"), <<List(<<ColumnCall("pid", "INTEGER", "Process ID", <<>>),
                                  Str("gid")>>)>>, <<>>),
     Call(Name("schema"),
          <<List(<<Call(Name("Column"), <<Str("pid"), Name("INTEGER")>>, <<>>)>>)>>,
          <<>>)}

PlatformCall(id, args) == Call(Name(id), args, <<>>)

LambdaWindowsOrLinux ==
    Lambda(BoolOp("Or", <<PlatformCall("WINDOWS", <<>>), PlatformCall("LINUX", <<>>)>>))

ExtendedWindowsOrLinux ==
    Call(Name("extended_schema"), <<LambdaWindowsOrLinux, OtherColumns>>, <<>>)

ExtendedSchemaCalls ==
    {ExtendedWindowsOrLinux,
     Call(Name("extended_schema"), <<Name("POSIX"), ForeignKeyColumns>>, <<>>),
     Call(Name("extended_schema"), <<Str("DARWIN"), GroupsColumns>>, <<>>),
     Call(Name("extended_schema"), <<NameConstant(BoolValue(TRUE)), OtherColumns>>, <<>>),
     Call(Name("extended_schema"), <<Name("SOLARIS"), OtherColumns>>, <<>>),
     Call(Name("extended_schema"), <<Num(1), OtherColumns>>, <<>>),
     Call(Name("extended_schema"),
          <<Lambda(BoolOp("And", <<PlatformCall("WINDOWS", <<>>),
                                   PlatformCall("LINUX", <<>>)>>)),
            OtherColumns>>, <<>>),
     Call(Name("extended_schema"),
          <<Lambda(BoolOp("Or", <<PlatformCall("LINUX", <<Num(1)>>),
                                  PlatformCall("DARWIN", <<>>)>>)),
            OtherColumns>>, <<>>),
     Call(Name("extended_schema"),
          <<Lambda(BoolOp("Or", <<Name("WINDOWS"), Name("LINUX")>>)),
            OtherColumns>>, <<>>),
     Call(Name("extended_schema"),
          <<Lambda(BoolOp("Or", <<PlatformCall("LINUX", <<>>),
                                  PlatformCall("POSIX", <<>>)>>)),
            SkippedColumns>>, <<>>),
     Call(Name("extended_schema"), <<Lambda(PlatformCall("LINUX", <<>>)), OtherColumns>>,
          <<>>),
     Call(Name("extended_schema"), <<Name("LINUX")>>, <<>>)}

AttributesCalls ==
    {Call(Name("attributes"), <<>>,
          <<Keyword("cacheable", NameConstant(BoolValue(TRUE))),
            Keyword("event_subscriber", Str("x")),
            Keyword("user_data", Name("yes")),
            Keyword("strongly_typed_rows", NameConstant(NoneValue)),
            Keyword("count", Num(1))>>)}

ImplementationCalls ==
    {Call(Name("implementation"), <<Str("groups@genGroups")>>, <<>>),
     Call(Name("implementation"), <<>>, <<>>)}

FuzzPathsCalls ==
    {Call(Name("fuzz_paths"), <<List(<<Str("/etc"), Str("/tmp")>>)>>, <<>>),
     Call(Name("fuzz_paths"), <<List(<<Str("/etc"), Num(1)>>)>>, <<>>)}

ExamplesCalls ==
    {Call(Name("examples"), <<List(<<Str("select * from groups")>>)>>, <<>>),
     Call(Name("examples"), <<Str("select * from groups")>>, <<>>)}

IgnoredCalls ==
    {ColumnCall("pid", "INTEGER", "Process ID", <<>>),
     ForeignKeyCall,
     Call(Name("print"), <<Str("x")>>, <<>>),
     Call(Str("f"), <<>>, <<>>)}

FileCalls ==
    TableNameCalls \cup DescriptionCalls \cup SchemaCalls \cup ExtendedSchemaCalls
    \cup AttributesCalls \cup ImplementationCalls \cup FuzzPathsCalls
    \cup ExamplesCalls \cup IgnoredCalls

\* the table definition of the README
GroupsFile ==
    <<Call(Name("table_name"), <<Str("groups")>>, <<>>),
      Call(Name("description"), <<Str("Local system groups.")>>, <<>>),
      Call(Name("schema"), <<GroupsColumns>>, <<>>),
      Call(Name("implementation"), <<Str("groups@genGroups")>>, <<>>)>>

TableFiles ==
    UNION {[1..n -> FileCalls] : n \in 0..MaxCalls} \cup {GroupsFile}

----------------------------------------------------------------------------
(* Visiting one table file: ParseTableDef from NewEmptyTable on *)

\* a file location: parent directory name, base name without extension, extension
Path(dir, stem, ext) == [dir |-> dir, stem |-> stem, ext |-> ext]

\* the identity of the *Table that ParseTableDef allocates for a file
TablePtr(path) == [space |-> "parsed", a |-> path.dir, b |-> path.stem]

\* t := NewEmptyTable(); t.Name = filename
NewTableFor(path) == [NewEmptyTable(TablePtr(path)) EXCEPT !.Name = path.stem]

VisitedPath == Path("specs", "t", ".table")
VisitedAddr == TablePtr(VisitedPath)

Callee(node) == IF node.func.kind = "Name" THEN node.func.id ELSE ""

DispatchNames ==
    {"table_name", "description", "schema", "Column", "attributes",
     "implementation", "fuzz_paths", "extended_schema", "examples", "ForeignKey"}

\* the orders in which the platform set of a call can come out of the map
PlatformOrders(node) ==
    IF Callee(node) = "extended_schema"
    THEN MapIterationOrders(
             Range(SchemaExtractSchema(NewEmptySchema(VisitedAddr), node).s.Platforms))
    ELSE {<<>>}

InitVisit ==
    /\ vfile \in TableFiles
    /\ vpos = 0
    /\ vtable = NewTableFor(VisitedPath)
    /\ vstatus = "running"
    /\ vbuilt = <<>>

\* the Schema a successfully handled schema / extended_schema call built
Built(t, node, ord) ==
    CASE Callee(node) = "schema" -> <<[node |-> node, s |-> t.Schema]>>
      [] Callee(node) = "extended_schema" ->
           <<[node |-> node,
              s |-> WithOrder(SchemaExtractSchema(NewEmptySchema(t.addr), node).s, ord)]>>
      [] OTHER -> <<>>

\* past.Walk reaches the next top-level call of the file
VisitCall(names) ==
    /\ vstatus = "running"
    /\ vpos < Len(vfile)
    /\ Callee(vfile[vpos + 1]) \in names
    /\ \E ord \in PlatformOrders(vfile[vpos + 1]) :
          LET walk(r) ==
                  /\ vtable' = r.t
                  /\ vstatus' = IF r.status = "ok" THEN "running" ELSE "panicked"
                  /\ vbuilt' = IF r.status = "ok"
                               THEN vbuilt \o Built(r.t, vfile[vpos + 1], ord)
                               ELSE vbuilt
          IN walk(Walk(vtable, vfile[vpos + 1], ord))
    /\ vpos' = vpos + 1
    /\ UNCHANGED <<vfile, dvars, ivars, lvars, bvars>>

VisitTableName == VisitCall({"table_name"})
VisitDescription == VisitCall({"description"})
VisitSchema == VisitCall({"schema"})
VisitColumn == VisitCall({"Column"})
VisitAttributes == VisitCall({"attributes"})
VisitImplementation == VisitCall({"implementation"})
VisitFuzzPaths == VisitCall({"fuzz_paths"})
VisitExtendedSchema == VisitCall({"extended_schema"})
VisitExamples == VisitCall({"examples"})
VisitForeignKey == VisitCall({"ForeignKey"})
VisitUnhandled ==
    /\ vstatus = "running"
    /\ vpos < Len(vfile)
    /\ Callee(vfile[vpos + 1]) \notin DispatchNames
    /\ vtable' = Walk(vtable, vfile[vpos + 1], <<>>).t
    /\ vpos' = vpos + 1
    /\ UNCHANGED <<vfile, vstatus, vbuilt, dvars, ivars, lvars, bvars>>

NextVisit ==
    \/ VisitTableName
    \/ VisitDescription
    \/ VisitSchema
    \/ VisitColumn
    \/ VisitAttributes
    \/ VisitImplementation
    \/ VisitFuzzPaths
    \/ VisitExtendedSchema
    \/ VisitExamples
    \/ VisitForeignKey
    \/ VisitUnhandled


----------------------------------------------------------------------------
(* Properties of the extraction of one table file *)

\* the column list argument of a schema / extended_schema call
ColumnList(node) ==
    IF Callee(node) = "extended_schema" THEN node.args[2] ELSE node.args[1]

IsFK(e) == e.func.id = "ForeignKey"
IsDeclaration(e) == ~IsFK(e) /\ Len(e.args) >= 1

\* C1: the Index fields of the Columns of every Schema that ExtractSchema
\* produced are 0..n-1 in declaration order, also when the column list holds
\* ForeignKey elements or elements skipped for having no positional argument.
C1_IndexesContiguous ==
    \A b \in Range(vbuilt) :
        \A i \in DOMAIN b.s.Columns : b.s.Columns[i].Index = i - 1

\* C6: visiting the four calls of the README's groups table in file order
\* yields the table "groups" with that description and implementation and
\* the base columns gid, gid_signed, groupname at indices 0, 1, 2 of types
\* BIGINT, BIGINT, TEXT, only the first with the option index=true.
C6_GroupsTable ==
    (vfile = GroupsFile /\ vpos = Len(GroupsFile)) =>
        /\ vstatus = "running"
        /\ vtable.Name = "groups"
        /\ vtable.Description = "Local system groups."
        /\ vtable.Implementation = "groups@genGroups"
        /\ ~IsNil(vtable.Schema)
        /\ [i \in DOMAIN vtable.Schema.Columns |->
               <<vtable.Schema.Columns[i].Name, vtable.Schema.Columns[i].Index,
                 vtable.Schema.Columns[i].Type>>]
           = << <<"gid", 0, "BIGINT">>, <<"gid_signed", 1, "BIGINT">>,
                <<"groupname", 2, "TEXT">> >>
        /\ vtable.Schema.Columns[1].Options = [index |-> BoolValue(TRUE)]
        /\ DOMAIN vtable.Schema.Columns[2].Options = {}
        /\ DOMAIN vtable.Schema.Columns[3].Options = {}

C6_Witness ==
    /\ vfile = GroupsFile
    /\ vpos = Len(GroupsFile)
    /\ vstatus = "running"
    /\ Len(vtable.Schema.Columns) = 3

\* the descriptor a ForeignKey element's keyword arguments describe
IsDescriptorOf(d, e) ==
    /\ DOMAIN d = {e.keywords[i].arg : i \in DOMAIN e.keywords}
    /\ \A i \in DOMAIN e.keywords :
          d[e.keywords[i].arg].v =
              (IF e.keywords[i].value.kind = "Str" THEN e.keywords[i].value.s
               ELSE e.keywords[i].value.id)

WindowsOrLinuxPlatforms == {"windows", "win32", "cygwin", "linux"}

ExtendedCallsVisited ==
    SelectSeq(SubSeq(vfile, 1, vpos), LAMBDA n : Callee(n) = "extended_schema")

\* C10: an extended_schema call with the platform argument
\* lambda: WINDOWS() or LINUX() leaves ExtendedSchemas with exactly the
\* platform names of the WINDOWS and LINUX categories as keys, each mapped to
\* the schema built from the call, whose Platforms hold each name once.
C10_LambdaRegistersEveryPlatform ==
    (vstatus = "running" /\ ExtendedCallsVisited = <<ExtendedWindowsOrLinux>>) =>
        /\ DOMAIN vtable.ExtendedSchemas = WindowsOrLinuxPlatforms
        /\ \E b \in Range(vbuilt) :
              /\ b.node = ExtendedWindowsOrLinux
              /\ \A k \in WindowsOrLinuxPlatforms : vtable.ExtendedSchemas[k] = b.s
              /\ b.s.Extended
              /\ Len(b.s.Columns) = Len(OtherColumns.elts)
              /\ Len(b.s.Platforms) = 4
              /\ Range(b.s.Platforms) = WindowsOrLinuxPlatforms

C10_Witness ==
    /\ vstatus = "running"
    /\ ExtendedCallsVisited = <<ExtendedWindowsOrLinux>>
    /\ "cygwin" \in DOMAIN vtable.ExtendedSchemas
    /\ vtable.ExtendedSchemas["cygwin"].Platforms[1] = "linux"

----------------------------------------------------------------------------
(* Namespace *)

ParserPtr == [space |-> "parser", a |-> "p", b |-> ""]

\* the identity of the *Namespace that NewNamespace allocates for a key
NamespacePtr(key) == [space |-> "parsed", a |-> key, b |-> ""]

NewNamespace(key, name, parser) ==
    [addr |-> NamespacePtr(key), parser |-> parser, Key |-> key, Name |-> name,
     Tables |-> EmptyMap, nils |-> {}]

----------------------------------------------------------------------------
(* Parser.ParseTableDef and the directory entries it is run on *)

NoError == Nil
Error(kind, path) == [kind |-> kind, path |-> path]

\* a directory entry: "file" (regular), "locked" (regular, os.Open fails),
\* "garbled" (regular, gparser.Parse fails), "directory" (not regular),
\* "unreadable" (a directory godirwalk cannot read)
Entry(path, kind, calls) == [path |-> path, kind |-> kind, calls |-> calls]

\* one namespace for every directory
NamespaceIDFlat(path) == "specs"

\* filepath.Base(filepath.Dir(src.Path))
NamespaceIDOf(path) == path.dir

\* !de.IsRegular() || filepath.Ext(fileloc) != ".table"
Skipped(e) == e.kind = "directory" \/ e.path.ext # ".table"

\* the orders the platform sets of a file's calls can come out of the map
FileOrders(e) ==
    UNION {PlatformOrders(e.calls[i]) : i \in DOMAIN e.calls}
    \cup {<<>>}

\* Parser.ParseTableDef: "ok" with the table, "err" with the error, "panic"
ParseTableDef(e, ord) ==
    IF e.kind = "locked"
    THEN [status |-> "err", err |-> Error("open", e.path), t |-> Nil]
    ELSE IF e.kind = "garbled"
    THEN [status |-> "err", err |-> Error("syntax", e.path), t |-> Nil]
    ELSE LET parsed(r) == [status |-> r.status, err |-> NoError, t |-> r.t]
         IN parsed(WalkAll(NewTableFor(e.path), e.calls, ord))

FooSchemaFile(dir) ==
    Entry(Path(dir, "foo", ".table"), "file",
          <<Call(Name("table_name"), <<Str("foo")>>, <<>>),
            Call(Name("schema"), <<ForeignKeyColumns>>, <<>>)>>)

\* declares the table name of FooSchemaFile("linux") a second time
FooAgainFile ==
    Entry(Path("linux", "foo2", ".table"), "file",
          <<Call(Name("table_name"), <<Str("foo")>>,
                 <<Keyword("aliases", List(<<Str("f")>>))>>),
            Call(Name("extended_schema"),
                 <<Lambda(BoolOp("Or", <<PlatformCall("LINUX", <<>>),
                                         PlatformCall("DARWIN", <<>>)>>)),
                   OtherColumns>>, <<>>)>>)

\* no table_name and no schema call
BarFile ==
    Entry(Path("linux", "bar", ".table"), "file",
          <<Call(Name("description"), <<Str("Local system groups.")>>, <<>>),
            Call(Name("attributes"), <<>>, <<Keyword("cacheable", NameConstant(BoolValue(TRUE)))>>)>>)

\* keyword arguments whose value is the None constant
NoneFile ==
    Entry(Path("posix", "opt", ".table"), "file",
          <<Call(Name("schema"),
                 <<List(<<ColumnCall("pid", "INTEGER", "Process ID",
                                     <<Keyword("default", NameConstant(NoneValue))>>)>>)>>,
                 <<>>),
            Call(Name("attributes"), <<>>,
                 <<Keyword("cacheable", NameConstant(NoneValue))>>)>>)

\* malformed: a second schema call
TwoSchemasFile ==
    Entry(Path("specs", "twice", ".table"), "file",
          <<Call(Name("schema"), <<OtherColumns>>, <<>>),
            Call(Name("schema"), <<OtherColumns>>, <<>>)>>)

\* malformed: the column argument is not a list
NonListFile ==
    Entry(Path("darwin", "nonlist", ".table"), "file",
          <<Call(Name("table_name"), <<Str("nonlist")>>, <<>>),
            Call(Name("schema"), <<Str("gid")>>, <<>>)>>)

MalformedFiles == {TwoSchemasFile, NonListFile}

DirectoryEntries ==
    {FooSchemaFile("linux"), FooSchemaFile("darwin"), FooAgainFile, BarFile, NoneFile,
     Entry(Path("specs", "groups", ".table"), "file", GroupsFile),
     TwoSchemasFile, NonListFile,
     Entry(Path("linux", "locked", ".table"), "locked", <<>>),
     Entry(Path("utility", "garbled", ".table"), "garbled", <<>>),
     Entry(Path("kernel", "x", ".table"), "file",
           <<Call(Name("table_name"), <<Str("x")>>, <<>>)>>),
     Entry(Path("linux", "README", ".md"), "file", <<>>),
     Entry(Path("specs", "linux", ""), "directory", <<>>),
     Entry(Path("specs", "smart", ""), "unreadable", <<>>)}

Trees == {S \in SUBSET DirectoryEntries : Cardinality(S) <= MaxFiles}

----------------------------------------------------------------------------
(* Parser.ParseDirectory *)

NotReturned == [returned |-> FALSE, err |-> NoError]
Returned(err) == [returned |-> TRUE, err |-> err]

SourceFile(path, table) == [Path |-> path, Table |-> table]

\* ParseDirectory makes the channels and starts the two tasks
ParseDirectory ==
    /\ proc = "running"
    /\ callerPc = "start"
    /\ callerPc' = "select"
    /\ aggPc' = "lock"
    /\ walkerPc' = "walking"
    /\ UNCHANGED <<vvars, ivars, lvars, bvars, tree, walked, walkErr, reschan, reschanClosed, errchan,
                   finchan, mutex, callerRet, Namespaces, proc, emitted, inserted>>

\* the record keeping task: p.Lock()
\* a worker that starts without the lock
WriteLockSkipped(owner) == "none"

\* p.Lock(): the owner of the Parser's write lock afterwards
WriteLock(owner) == owner

AggregatorLock ==
    /\ proc = "running"
    /\ aggPc = "lock"
    /\ mutex = "none"
    /\ mutex' = WriteLock("aggregator")
    /\ aggPc' = "range"
    /\ UNCHANGED <<vvars, ivars, lvars, bvars, tree, walked, walkerPc, walkErr, reschan, reschanClosed,
                   errchan, finchan, callerPc, callerRet, Namespaces, proc,
                   emitted, inserted>>

\* the body of `for src := range reschan`
\* a map that keeps the Table a name already has
StoreTableOnce(tables, table) ==
    IF table.Name \in DOMAIN tables THEN tables ELSE MapSet(tables, table.Name, table)

\* ns.Tables[src.Table.Name] = src.Table
StoreTable(tables, table) == MapSet(tables, table.Name, table)

AggregatorInsert(namespaces, src) ==
    LET namespaceID == NamespaceIDOf(src.Path)
        ns == IF namespaceID \in DOMAIN namespaces THEN namespaces[namespaceID]
              ELSE NewNamespace(namespaceID, CanonicalPlatforms[namespaceID], ParserPtr)
        table == [src.Table EXCEPT !.NamespaceID = namespaceID,
                                   !.Namespace = ns.addr]
    IN MapSet(namespaces, namespaceID,
              [ns EXCEPT !.Tables = StoreTable(@, table)])

HandedOver(src) ==
    [path |-> src.Path, name |-> src.Table.Name, addr |-> src.Table.addr]

AggregatorReceive ==
    /\ proc = "running"
    /\ aggPc = "range"
    /\ reschan # <<>>
    /\ reschan' = Tail(reschan)
    /\ IF NamespaceIDOf(Head(reschan).Path) \notin DOMAIN CanonicalPlatforms
       THEN \* p.Logger.Fatalw: os.Exit(1)
            /\ proc' = "exited"
            /\ UNCHANGED <<Namespaces, inserted>>
       ELSE /\ Namespaces' = AggregatorInsert(Namespaces, Head(reschan))
            /\ inserted' = inserted \cup {HandedOver(Head(reschan))}
            /\ UNCHANGED proc
    /\ UNCHANGED <<vvars, ivars, lvars, bvars, tree, walked, walkerPc, walkErr, reschanClosed, errchan,
                   finchan, mutex, aggPc, callerPc, callerRet, emitted>>

\* a loop that ends as soon as the channel is empty
RangeEndsOnEmpty(ch, closed) == ch = <<>>

\* `range reschan` ends when the channel is closed and drained
RangeEnds(ch, closed) == ch = <<>> /\ closed

AggregatorRangeEnd ==
    /\ proc = "running"
    /\ aggPc = "range"
    /\ RangeEnds(reschan, reschanClosed)
    /\ aggPc' = "unlock"
    /\ UNCHANGED <<vvars, ivars, lvars, bvars, tree, walked, walkerPc, walkErr, reschan, reschanClosed,
                   errchan, finchan, mutex, callerPc, callerRet, Namespaces, proc,
                   emitted, inserted>>

\* defer p.Unlock()
AggregatorUnlock ==
    /\ proc = "running"
    /\ aggPc = "unlock"
    /\ mutex' = "none"
    /\ aggPc' = "finish"
    /\ UNCHANGED <<vvars, ivars, lvars, bvars, tree, walked, walkerPc, walkErr, reschan, reschanClosed,
                   errchan, finchan, callerPc, callerRet, Namespaces, proc,
                   emitted, inserted>>

\* the first defer: finchan <- true
AggregatorFinish ==
    /\ proc = "running"
    /\ aggPc = "finish"
    /\ Len(finchan) < 1
    /\ finchan' = Append(finchan, TRUE)
    /\ aggPc' = "done"
    /\ UNCHANGED <<vvars, ivars, lvars, bvars, tree, walked, walkerPc, walkErr, reschan, reschanClosed,
                   errchan, mutex, callerPc, callerRet, Namespaces, proc,
                   emitted, inserted>>

\* godirwalk calls the callback on an entry that is skipped
\* the files the callback hands to ParseTableDef
ParsedEntries == {e \in DirectoryEntries : e.kind # "unreadable" /\ ~Skipped(e)}

\* the orders the platform maps of each such file can come out in
OrdersOf == [e \in ParsedEntries |-> FileOrders(e)]

\* what ParseTableDef returns for each such file and order, as an explicit
\* function (the merge with the empty function enumerates it once)
ParsedFiles ==
    [x \in UNION {{e} \X OrdersOf[e] : e \in ParsedEntries} |->
        ParseTableDef(x[1], x[2])] @@ <<>>

WalkerSkip ==
    /\ proc = "running"
    /\ walkerPc = "walking"
    /\ \E e \in tree :
          /\ e.path \notin walked
          /\ e.kind # "unreadable"
          /\ Skipped(e)
          /\ walked' = walked \cup {e.path}
    /\ UNCHANGED <<vvars, ivars, lvars, bvars, tree, walkerPc, walkErr, reschan, reschanClosed, errchan,
                   finchan, mutex, aggPc, callerPc, callerRet, Namespaces, proc,
                   emitted, inserted>>

\* the callback parses a .table file and sends the table on reschan
WalkerEmit ==
    /\ proc = "running"
    /\ walkerPc = "walking"
    /\ Len(reschan) < ResChanCap
    /\ \E e \in tree :
          /\ e.path \notin walked
          /\ e.kind # "unreadable"
          /\ ~Skipped(e)
          /\ \E ord \in OrdersOf[e] :
                LET send(r) ==
                        /\ r.status = "ok"
                        /\ reschan' = Append(reschan, SourceFile(e.path, r.t))
                        /\ emitted' = emitted \cup {HandedOver(SourceFile(e.path, r.t))}
                IN send(ParsedFiles[<<e, ord>>])
          /\ walked' = walked \cup {e.path}
    /\ UNCHANGED <<vvars, ivars, lvars, bvars, tree, walkerPc, walkErr, reschanClosed, errchan, finchan,
                   mutex, aggPc, callerPc, callerRet, Namespaces, proc, inserted>>

\* ParseTableDef returns an error: the callback returns it and the walk halts
WalkerParseError ==
    /\ proc = "running"
    /\ walkerPc = "walking"
    /\ \E e \in tree :
          /\ e.path \notin walked
          /\ e.kind # "unreadable"
          /\ ~Skipped(e)
          /\ LET failed(r) == r.status = "err" /\ walkErr' = r.err
             IN failed(ParsedFiles[<<e, <<>>>>])
          /\ walked' = walked \cup {e.path}
    /\ walkerPc' = "errored"
    /\ UNCHANGED <<vvars, ivars, lvars, bvars, tree, reschan, reschanClosed, errchan, finchan, mutex,
                   aggPc, callerPc, callerRet, Namespaces, proc, emitted, inserted>>

\* a handler of the visitor fails: panic(err) in the walker task
WalkerPanic ==
    /\ proc = "running"
    /\ walkerPc = "walking"
    /\ \E e \in tree :
          /\ e.path \notin walked
          /\ e.kind # "unreadable"
          /\ ~Skipped(e)
          /\ ParsedFiles[<<e, <<>>>>].status = "panic"
          /\ walked' = walked \cup {e.path}
    /\ proc' = "panicked"
    /\ UNCHANGED <<vvars, ivars, lvars, bvars, tree, walkerPc, walkErr, reschan, reschanClosed, errchan,
                   finchan, mutex, aggPc, callerPc, callerRet, Namespaces,
                   emitted, inserted>>

\* godirwalk fails to read a directory: Walk returns the error
WalkerWalkError ==
    /\ proc = "running"
    /\ walkerPc = "walking"
    /\ \E e \in tree :
          /\ e.path \notin walked
          /\ e.kind = "unreadable"
          /\ walkErr' = Error("walk", e.path)
          /\ walked' = walked \cup {e.path}
    /\ walkerPc' = "errored"
    /\ UNCHANGED <<vvars, ivars, lvars, bvars, tree, reschan, reschanClosed, errchan, finchan, mutex,
                   aggPc, callerPc, callerRet, Namespaces, proc, emitted, inserted>>

\* godirwalk.Walk returns nil
WalkerWalkDone ==
    /\ proc = "running"
    /\ walkerPc = "walking"
    /\ \A e \in tree : e.path \in walked
    /\ walkerPc' = "closing"
    /\ UNCHANGED <<vvars, ivars, lvars, bvars, tree, walked, walkErr, reschan, reschanClosed, errchan,
                   finchan, mutex, aggPc, callerPc, callerRet, Namespaces, proc,
                   emitted, inserted>>

\* if err != nil { errchan <- err }
WalkerSendError ==
    /\ proc = "running"
    /\ walkerPc = "errored"
    /\ Len(errchan) < 1
    /\ errchan' = Append(errchan, walkErr)
    /\ walkerPc' = "closing"
    /\ UNCHANGED <<vvars, ivars, lvars, bvars, tree, walked, walkErr, reschan, reschanClosed, finchan,
                   mutex, aggPc, callerPc, callerRet, Namespaces, proc, emitted,
                   inserted>>

\* defer close(reschan)
\* a walker that returns without closing the channel
CloseSkipped(closed) == closed

\* close(reschan)
Close(closed) == TRUE

WalkerClose ==
    /\ proc = "running"
    /\ walkerPc = "closing"
    /\ reschanClosed' = Close(reschanClosed)
    /\ walkerPc' = "done"
    /\ UNCHANGED <<vvars, ivars, lvars, bvars, tree, walked, walkErr, reschan, errchan, finchan, mutex,
                   aggPc, callerPc, callerRet, Namespaces, proc, emitted, inserted>>

\* select: case err := <-errchan: return err
SelectError ==
    /\ proc = "running"
    /\ callerPc = "select"
    /\ errchan # <<>>
    /\ callerRet' = Returned(Head(errchan))
    /\ errchan' = Tail(errchan)
    /\ callerPc' = "returned"
    /\ UNCHANGED <<vvars, ivars, lvars, bvars, tree, walked, walkerPc, walkErr, reschan, reschanClosed,
                   finchan, mutex, aggPc, Namespaces, proc, emitted, inserted>>

\* select: case <-finchan: return nil
SelectFinished ==
    /\ proc = "running"
    /\ callerPc = "select"
    /\ finchan # <<>>
    /\ callerRet' = Returned(NoError)
    /\ finchan' = Tail(finchan)
    /\ callerPc' = "returned"
    /\ UNCHANGED <<vvars, ivars, lvars, bvars, tree, walked, walkerPc, walkErr, reschan, reschanClosed,
                   errchan, mutex, aggPc, Namespaces, proc, emitted, inserted>>

----------------------------------------------------------------------------
(* Export of Parser.Namespaces (json.MarshalIndent / yaml.Marshal) *)

\* a struct field in the document, left out when it is empty (omitempty)
Field(key, value, empty) ==
    IF empty THEN EmptyMap ELSE [k \in {key} |-> value]

Merged(f, g) == [k \in (DOMAIN f) \cup (DOMAIN g) |-> IF k \in DOMAIN f THEN f[k] ELSE g[k]]

\* the encoding of an interface{} value: a py.Bool is a boolean kind, the
\* py.NoneType struct has no exported field and is written as an empty object
MarshalValue(x) ==
    CASE x.t = "py.Bool" -> [json |-> "boolean", v |-> x.v]
      [] x.t = "bool" -> [json |-> "boolean", v |-> x.v]
      [] x.t = "string" -> [json |-> "string", v |-> x.v]
      [] OTHER -> [json |-> "object", v |-> FALSE]

MarshalMap(m) == [k \in DOMAIN m |-> MarshalValue(m[k])]

MarshalColumn(c) ==
    Merged([index |-> c.Index],
    Merged(Field("name", c.Name, c.Name = ""),
    Merged(Field("type", c.Type, c.Type = ""),
    Merged(Field("description", c.Description, c.Description = ""),
    Merged(Field("aliases", c.Aliases, Len(c.Aliases) = 0),
           Field("options", MarshalMap(c.Options), DOMAIN c.Options = {}))))))

MarshalSchema(s) ==
    Merged(Field("platforms", s.Platforms, Len(s.Platforms) = 0),
    Merged(Field("extended", s.Extended, ~s.Extended),
    Merged(Field("columns", [i \in DOMAIN s.Columns |-> MarshalColumn(s.Columns[i])],
                 Len(s.Columns) = 0),
           Field("foreign_keys",
                 [i \in DOMAIN s.ForeignKeys |-> MarshalMap(s.ForeignKeys[i])],
                 Len(s.ForeignKeys) = 0))))

\* yaml.v3 writes the embedded sync.RWMutex, which has no exported field, as
\* an empty mapping under the lowercased type name; encoding/json writes nothing
MarshalEmbedded(format) ==
    IF format = "yaml" THEN [k \in {"rwmutex"} |-> EmptyMap] ELSE EmptyMap

MarshalTable(t, format) ==
    Merged(MarshalEmbedded(format),
    Merged(Field("namespace_id", t.NamespaceID, t.NamespaceID = ""),
    Merged(Field("name", t.Name, t.Name = ""),
    Merged(Field("aliases", t.Aliases, Len(t.Aliases) = 0),
    Merged(Field("description", t.Description, t.Description = ""),
    Merged(IF IsNil(t.Schema) THEN EmptyMap ELSE [k \in {"schema"} |-> MarshalSchema(t.Schema)],
    Merged(Field("attributes", MarshalMap(t.Attributes), DOMAIN t.Attributes = {}),
    Merged(Field("implementation", t.Implementation, t.Implementation = ""),
    Merged(Field("fuzz_paths", t.FuzzPaths, Len(t.FuzzPaths) = 0),
    Merged(Field("extended_schemas",
                 [k \in DOMAIN t.ExtendedSchemas |-> MarshalSchema(t.ExtendedSchemas[k])],
                 DOMAIN t.ExtendedSchemas = {}),
           Field("examples", t.Examples, Len(t.Examples) = 0)))))))))))

MarshalNamespace(ns, format) ==
    Merged(Field("key", ns.Key, ns.Key = ""),
    Merged(Field("name", ns.Name, ns.Name = ""),
           Field("tables", [k \in DOMAIN ns.Tables |-> MarshalTable(ns.Tables[k], format)],
                 DOMAIN ns.Tables = {})))

\* the document written for parser.Namespaces
Marshal(namespaces, format) ==
    [k \in DOMAIN namespaces |-> MarshalNamespace(namespaces[k], format)]

----------------------------------------------------------------------------
(* Re-import: Unmarshal into map[string]*Namespace, then Parser.InjectTables *)

\* the field of the document, the zero value when the document has none
Get(doc, key, zero) == IF key \in DOMAIN doc THEN doc[key] ELSE zero

\* the slice and map fields left nil because the document has no such key
NilFields(doc, keys) == {f \in DOMAIN keys : keys[f] \notin DOMAIN doc}

\* what Unmarshal stores in an interface{} for a value of the document
UnmarshalValue(w) ==
    CASE w.json = "boolean" -> GoBool(w.v)
      [] w.json = "string" -> StringValue(w.v)
      [] OTHER -> GoEmptyMap

UnmarshalMap(m) == [k \in DOMAIN m |-> UnmarshalValue(m[k])]

UnmarshalColumn(doc) ==
    [Index |-> Get(doc, "index", 0),
     Name |-> Get(doc, "name", ""),
     Type |-> Get(doc, "type", ""),
     Description |-> Get(doc, "description", ""),
     Aliases |-> Get(doc, "aliases", <<>>),
     Options |-> UnmarshalMap(Get(doc, "options", EmptyMap)),
     nils |-> NilFields(doc, [Aliases |-> "aliases", Options |-> "options"])]

UnmarshalSchema(doc) ==
    [Table |-> Nil,
     Platforms |-> Get(doc, "platforms", <<>>),
     Extended |-> Get(doc, "extended", FALSE),
     Columns |-> [i \in DOMAIN Get(doc, "columns", <<>>) |->
                     UnmarshalColumn(doc["columns"][i])],
     ForeignKeys |-> [i \in DOMAIN Get(doc, "foreign_keys", <<>>) |->
                         UnmarshalMap(doc["foreign_keys"][i])],
     nils |-> NilFields(doc, [Platforms |-> "platforms", Columns |-> "columns",
                              ForeignKeys |-> "foreign_keys"])]

\* the identity of an object that Unmarshal allocates
ImportedPtr(nsid, tname) == [space |-> "imported", a |-> nsid, b |-> tname]

UnmarshalTable(doc, ptr) ==
    [addr |-> ptr,
     Namespace |-> Nil,
     NamespaceID |-> Get(doc, "namespace_id", ""),
     Name |-> Get(doc, "name", ""),
     Aliases |-> Get(doc, "aliases", <<>>),
     Description |-> Get(doc, "description", ""),
     Schema |-> IF "schema" \in DOMAIN doc THEN UnmarshalSchema(doc["schema"]) ELSE Nil,
     Attributes |-> UnmarshalMap(Get(doc, "attributes", EmptyMap)),
     Implementation |-> Get(doc, "implementation", ""),
     FuzzPaths |-> Get(doc, "fuzz_paths", <<>>),
     ExtendedSchemas |-> [k \in DOMAIN Get(doc, "extended_schemas", EmptyMap) |->
                             UnmarshalSchema(doc["extended_schemas"][k])],
     Examples |-> Get(doc, "examples", <<>>),
     nils |-> NilFields(doc, [Aliases |-> "aliases", Attributes |-> "attributes",
                              FuzzPaths |-> "fuzz_paths",
                              ExtendedSchemas |-> "extended_schemas",
                              Examples |-> "examples"])]

UnmarshalNamespace(doc, nsid) ==
    [addr |-> ImportedPtr(nsid, ""),
     parser |-> Nil,
     Key |-> Get(doc, "key", ""),
     Name |-> Get(doc, "name", ""),
     Tables |-> [k \in DOMAIN Get(doc, "tables", EmptyMap) |->
                    UnmarshalTable(doc["tables"][k], ImportedPtr(nsid, k))],
     nils |-> NilFields(doc, [Tables |-> "tables"])]

\* tables := map[string]*Namespace{}; Unmarshal(filebytes, &tables)
Unmarshal(doc) == [k \in DOMAIN doc |-> UnmarshalNamespace(doc[k], k)]

FreshParserPtr == [space |-> "parser", a |-> "q", b |-> ""]

\* a loop over the extended schemas that leaves them as they are
InjectExtendedSkipped(table) == table.ExtendedSchemas

\* for esname, es := range table.ExtendedSchemas { es.Table = table }
InjectExtended(table) ==
    [esname \in DOMAIN table.ExtendedSchemas |->
        [table.ExtendedSchemas[esname] EXCEPT !.Table = table.addr]]

\* the body of `for tname, table := range ns.Tables`
InjectTable(table, ns, nsid) ==
    [table EXCEPT !.Namespace = ns.addr,
                  !.NamespaceID = IF @ = "" THEN nsid ELSE @,
                  !.Schema = IF IsNil(@) THEN @ ELSE [@ EXCEPT !.Table = table.addr],
                  !.ExtendedSchemas = InjectExtended(table)]

\* the body of `for nsid, ns := range raw`, up to p.Namespaces[nsid] = ns
InjectNamespace(ns, nsid, parser) ==
    LET ns1 == IF IsNil(ns.parser) THEN [ns EXCEPT !.parser = parser] ELSE ns
    IN [ns1 EXCEPT !.Tables =
           [tname \in DOMAIN ns.Tables |-> InjectTable(ns.Tables[tname], ns1, nsid)]]

\* Parser.InjectTables: the Namespaces of the parser afterwards
InjectTables(namespaces, raw, parser) ==
    [nsid \in (DOMAIN namespaces) \cup (DOMAIN raw) |->
        IF nsid \in DOMAIN raw THEN InjectNamespace(raw[nsid], nsid, parser)
        ELSE namespaces[nsid]]

\* exportSchema after ParseDirectory returned nil, as JSON or as YAML
ExportSchema(format) ==
    /\ proc = "running"
    /\ callerPc = "returned"
    /\ IsNil(callerRet.err)
    /\ IsNil(exported)
    /\ exported' = [format |-> format, doc |-> Marshal(Namespaces, format)]
    /\ UNCHANGED <<vvars, dvars, lvars, bvars, decoded, fresh, importPc>>

ExportJSON == ExportSchema("json")
ExportYAML == ExportSchema("yaml")

\* ParseJSONSchemaFile / ParseYAMLSchemaFile on a new Parser
ParseSchemaFile(format) ==
    /\ proc = "running"
    /\ importPc = "new"
    /\ ~IsNil(exported)
    /\ exported.format = format
    /\ decoded' = Unmarshal(exported.doc)
    /\ fresh' = InjectTables(fresh, Unmarshal(exported.doc), FreshParserPtr)
    /\ importPc' = "injected"
    /\ UNCHANGED <<vvars, dvars, lvars, bvars, exported>>

ParseJSONSchemaFile == ParseSchemaFile("json")
ParseYAMLSchemaFile == ParseSchemaFile("yaml")

\* schema files that no export wrote: one namespace with one table, the
\* "key" of the namespace and the "namespace_id" of the table absent, equal
\* to the key of the document or different from it
ColumnsDocument ==
    [columns |-> <<[index |-> 0, name |-> "pid", type |-> "INTEGER"]>>]

TableDocument(nsid, schema, extended) ==
    Merged(Field("namespace_id", nsid, nsid = ""),
    Merged([name |-> "foo"],
    Merged(Field("schema", ColumnsDocument, ~schema),
           Field("extended_schemas",
                 [k \in {"linux"} |->
                     Merged([extended |-> TRUE, platforms |-> <<"linux">>],
                            ColumnsDocument)],
                 ~extended))))

NamespaceDocument(key, table) ==
    Merged(Field("key", key, key = ""),
           [name |-> "Ubuntu, CentOS", tables |-> [n \in {"foo"} |-> table]])

SchemaFiles ==
    {[format |-> format,
      doc |-> [k \in {nsid} |->
                  NamespaceDocument(key, TableDocument(id, schema, extended))]] :
        format \in {"json", "yaml"}, nsid \in {"linux", "darwin"},
        key \in {"", "linux", "darwin"}, id \in {"", "linux", "darwin"},
        schema \in BOOLEAN, extended \in BOOLEAN}

----------------------------------------------------------------------------
(* Schema.ExtractSchema on the platform argument of an extended_schema     *)
(* call, and Schema.ParseLambda, on a new Schema                           *)

\* the operands a lambda body is built from: zero-argument calls to the
\* categories, a call that carries an argument, a call to an unknown
\* identifier, a bare identifier and a call whose callee is no identifier
CategoryOperands == {PlatformCall(c, <<>>) : c \in DOMAIN TableCategories}

OtherOperands ==
    {PlatformCall("LINUX", <<Num(1)>>),
     PlatformCall("SOLARIS", <<>>),
     Name("LINUX"),
     Call(Str("LINUX"), <<>>, <<>>)}

Operands == CategoryOperands \cup OtherOperands

OperandLists == UNION {[1..n -> Operands] : n \in 1..MaxOperands}

Lambdas ==
    {Lambda(BoolOp("Or", values)) : values \in OperandLists}
    \cup {Lambda(BoolOp("And", values)) : values \in [1..2 -> CategoryOperands]}
    \cup {Lambda(PlatformCall("LINUX", <<>>))}

\* node.Args[0] of an extended_schema call
PlatformArgs ==
    Lambdas
    \cup {Name(c) : c \in DOMAIN TableCategories} \cup {Name("SOLARIS")}
    \cup {Str(c) : c \in DOMAIN TableCategories} \cup {Str("SOLARIS")}
    \cup {NameConstant(BoolValue(TRUE)), NameConstant(NoneValue), Num(1)}

\* extSchema := NewEmptySchema(t)
PlatformReceiver == [NewEmptySchema(VisitedAddr) EXCEPT !.Extended = TRUE]

InitPlatforms ==
    /\ larg \in PlatformArgs
    /\ lret = Nil

\* the result with s.Platforms in one of the orders the last
\* `for key := range tmp` can leave
Reordered(r, ord) == [status |-> r.status, s |-> WithOrder(r.s, ord)]
ResultOrders(r) == MapIterationOrders(Range(r.s.Platforms))

\* s.ParseLambda(platformArg)
SchemaParseLambda ==
    /\ IsNil(lret)
    /\ larg.kind = "Lambda"
    /\ LET returned(r) == \E ord \in ResultOrders(r) : lret' = Reordered(r, ord)
       IN returned(ParseLambda(PlatformReceiver, larg))
    /\ UNCHANGED <<vvars, dvars, ivars, bvars, larg>>

\* the other cases of `switch platformArg := node.Args[0].(type)`
SchemaExtractPlatforms ==
    /\ IsNil(lret)
    /\ larg.kind # "Lambda"
    /\ LET returned(r) == \E ord \in ResultOrders(r) : lret' = Reordered(r, ord)
       IN returned(ExtractPlatforms(PlatformReceiver, larg))
    /\ UNCHANGED <<vvars, dvars, ivars, bvars, larg>>

PlatformsIdle ==
    /\ larg = Nil
    /\ lret = Nil

----------------------------------------------------------------------------
(* virtual.Database *)

\* NewDatabase
NewDatabase ==
    /\ dbInitialized = FALSE
    /\ dbSchemas = EmptyMap
    /\ dbMemtables = EmptyMap
    /\ dbMutex = "none"
    /\ dbEngines = 0
    /\ dbStarted = 0

NoCallers ==
    /\ dbCallers = {}
    /\ dbInputs = {}
    /\ dbPc = EmptyMap
    /\ dbCall = EmptyMap
    /\ dbRet = EmptyMap

DatabaseIdle == NewDatabase /\ NoCallers

\* the sql type Column.ToSQLSchema gives to a type token
SQLTypes ==
    [token \in {"TEXT", "DATE", "DATETIME", "INTEGER", "BIGINT",
                "UNSIGNED_BIGINT", "DOUBLE", "BLOB"} |->
        CASE token = "TEXT" -> "sql.Text"
          [] token = "DATE" -> "sql.Date"
          [] token = "DATETIME" -> "sql.Timestamp"
          [] token = "INTEGER" -> "sql.Int32"
          [] token = "BIGINT" -> "sql.Int64"
          [] token = "UNSIGNED_BIGINT" -> "sql.Uint64"
          [] token = "DOUBLE" -> "sql.Float64"
          [] token = "BLOB" -> "sql.Blob"]

UnsupportedType == "panic: unsupported type"
NilDereference == "panic: nil pointer dereference"

\* Column.ToSQLSchema: the *sql.Column, or the panic of the default case
ColumnToSQLSchema(c, tablename) ==
    IF c.Type \in DOMAIN SQLTypes
    THEN [status |-> "ok",
          col |-> [Name |-> c.Name, Source |-> tablename, Nullable |-> TRUE,
                   Type |-> SQLTypes[c.Type]]]
    ELSE [status |-> UnsupportedType, col |-> Nil]

\* for _, col := range columns { cols = append(cols, col.ToSQLSchema(t.Name)) }
RECURSIVE AppendColumns(_, _, _)
AppendColumns(cols, columns, tablename) ==
    IF columns = <<>> THEN [status |-> "ok", cols |-> cols]
    ELSE LET next(r) ==
                 IF r.status # "ok" THEN [status |-> r.status, cols |-> cols]
                 ELSE AppendColumns(Append(cols, r.col), Tail(columns), tablename)
         IN next(ColumnToSQLSchema(Head(columns), tablename))

\* a loop that takes the filter from its last entry to its first
FilterOrderReversed(extendedSchemas) ==
    [i \in DOMAIN extendedSchemas |-> extendedSchemas[Len(extendedSchemas) + 1 - i]]

\* for _, ext := range extendedSchemas
FilterOrder(extendedSchemas) == extendedSchemas

\* the second loop of Table.ToSQLSchema
RECURSIVE AppendExtended(_, _, _)
AppendExtended(cols, t, extendedSchemas) ==
    IF extendedSchemas = <<>> THEN [status |-> "ok", cols |-> cols]
    ELSE IF Head(extendedSchemas) \notin DOMAIN t.ExtendedSchemas
    THEN AppendExtended(cols, t, Tail(extendedSchemas))
    ELSE LET next(r) ==
                 IF r.status # "ok" THEN r
                 ELSE AppendExtended(r.cols, t, Tail(extendedSchemas))
         IN next(AppendColumns(cols, t.ExtendedSchemas[Head(extendedSchemas)].Columns,
                               t.Name))

\* Table.ToSQLSchema: the sql.Schema or the panic, and the Table afterwards
TableToSQLSchema(t, extendedSchemas) ==
    IF IsNil(t.Schema)
    THEN [status |-> NilDereference, cols |-> <<>>, t |-> t]
    ELSE LET extended(r) ==
                 IF r.status # "ok" THEN r
                 ELSE AppendExtended(r.cols, t, FilterOrder(extendedSchemas))
             result(r) == [status |-> r.status, cols |-> r.cols, t |-> t]
         IN result(extended(AppendColumns(<<>>, t.Schema.Columns, t.Name)))

\* the table files whose Tables are given to the Database
ProcessesFile ==
    Entry(Path("specs", "processes", ".table"), "file",
          <<Call(Name("table_name"), <<Str("processes")>>, <<>>),
            Call(Name("schema"), <<ForeignKeyColumns>>, <<>>),
            Call(Name("extended_schema"), <<Name("LINUX"), OtherColumns>>, <<>>),
            Call(Name("extended_schema"),
                 <<Lambda(BoolOp("Or", <<PlatformCall("WINDOWS", <<>>),
                                         PlatformCall("DARWIN", <<>>)>>)),
                   List(<<ColumnCall("handle_count", "DOUBLE", "Handles", <<>>),
                          ColumnCall("upid", "UNSIGNED_BIGINT", "Unique id", <<>>)>>)>>,
                 <<>>)>>)

\* a type token that is no sql type, in the base schema
BooleanFile ==
    Entry(Path("specs", "flags", ".table"), "file",
          <<Call(Name("table_name"), <<Str("flags")>>, <<>>),
            Call(Name("schema"),
                 <<List(<<ColumnCall("name", "TEXT", "Flag name", <<>>),
                          ColumnCall("set", "BOOLEAN", "Flag is set", <<>>)>>)>>,
                 <<>>)>>)

\* a type token that is no sql type, in the extended schema for linux
VarcharFile ==
    Entry(Path("posix", "mounts", ".table"), "file",
          <<Call(Name("table_name"), <<Str("mounts")>>, <<>>),
            Call(Name("schema"), <<OtherColumns>>, <<>>),
            Call(Name("extended_schema"),
                 <<Name("LINUX"),
                   List(<<ColumnCall("device", "VARCHAR", "Device", <<>>)>>)>>,
                 <<>>)>>)

\* a file without a schema call: the Table has extended schemas only
ExtendedOnlyFile ==
    Entry(Path("linux", "events", ".table"), "file",
          <<Call(Name("table_name"), <<Str("events")>>, <<>>),
            Call(Name("extended_schema"), <<Name("LINUX"), OtherColumns>>, <<>>)>>)

DatabaseFiles ==
    {Entry(Path("specs", "groups", ".table"), "file", GroupsFile),
     ProcessesFile, BooleanFile, VarcharFile, BarFile, ExtendedOnlyFile}

\* the Tables the extraction builds from table files
TablesOf(files) ==
    {r.t : r \in {r \in {ParseTableDef(x[1], x[2]) :
                             x \in UNION {{e} \X FileOrders(e) : e \in files}} :
                   r.status = "ok"}}

DatabaseTables == TablesOf(DatabaseFiles)

TableNames == {t.Name : t \in DatabaseTables}

\* the osexts argument of AddTable
PlatformFilters ==
    {<<>>, <<"linux">>, <<"darwin", "linux">>, <<"solaris", "windows">>}

NoReturn == [err |-> "none", tbl |-> Nil]
Return(err, tbl) == [err |-> err, tbl |-> tbl]

ErrDatabaseInitialized == "database has already been initialized and cannot be modified"
ErrEngineInit == "error initializing database"
ErrNotInitialized == "server cannot start until the database is initialized"
ErrListen == "listen error"

\* a call as it starts
Started(op, tbl, osexts) == [op |-> op, tbl |-> tbl, osexts |-> osexts]

CanCall(th) ==
    /\ proc = "running"
    /\ th \in dbCallers
    /\ dbPc[th] = "idle"
    /\ dbStarted < MaxDbCalls

\* a guard that lets every call through
InitializedGuardMissing(initialized) == FALSE

\* if d.initialized { return ErrDatabaseInitialized }
InitializedGuard(initialized) == initialized

\* AddTable up to d.Lock()
AddTableEnter(th) ==
    /\ CanCall(th)
    /\ \E input \in dbInputs :
          \E tbl \in {t \in DatabaseTables : t.Name = input[1]} :
              dbCall' = [dbCall EXCEPT ![th] = Started("AddTable", tbl, input[2])]
    /\ dbStarted' = dbStarted + 1
    /\ IF InitializedGuard(dbInitialized)
       THEN /\ dbRet' = [dbRet EXCEPT ![th] = Return(ErrDatabaseInitialized, Nil)]
            /\ UNCHANGED dbPc
       ELSE /\ dbPc' = [dbPc EXCEPT ![th] = "AddTable.Lock"]
            /\ dbRet' = [dbRet EXCEPT ![th] = NoReturn]
    /\ UNCHANGED <<vvars, dvars, ivars, lvars, dbCallers, dbInputs, dbInitialized, dbSchemas,
                   dbMemtables, dbMutex, dbEngines>>

\* d.Lock()
DatabaseLock(th, at, to) ==
    /\ proc = "running"
    /\ th \in dbCallers
    /\ dbPc[th] = at
    /\ dbMutex = "none"
    /\ dbMutex' = th
    /\ dbPc' = [dbPc EXCEPT ![th] = to]
    /\ UNCHANGED <<vvars, dvars, ivars, lvars, dbCallers, dbInputs, dbCall, dbRet, dbInitialized,
                   dbSchemas, dbMemtables, dbEngines, dbStarted>>

AddTableLock(th) == DatabaseLock(th, "AddTable.Lock", "AddTable.Body")

\* a lock that stays with the goroutine
DeferredUnlockMissing(th) == th

\* defer d.Unlock()
DeferredUnlock(th) == "none"

\* schema := tbl.ToSQLSchema(osexts); d.schemas[tbl.Name] = schema; return nil
\* with the deferred Unlock, which also runs when ToSQLSchema panics
AddTableBody(th) ==
    /\ proc = "running"
    /\ th \in dbCallers
    /\ dbPc[th] = "AddTable.Body"
    /\ LET stored(r) ==
               IF r.status = "ok"
               THEN /\ dbSchemas' = MapSet(dbSchemas, dbCall[th].tbl.Name, r.cols)
                    /\ dbRet' = [dbRet EXCEPT ![th] = Return("nil", r.t)]
                    /\ dbPc' = [dbPc EXCEPT ![th] = "idle"]
               ELSE /\ dbRet' = [dbRet EXCEPT ![th] = Return(r.status, r.t)]
                    /\ dbPc' = [dbPc EXCEPT ![th] = "panicking"]
                    /\ UNCHANGED dbSchemas
       IN stored(TableToSQLSchema(dbCall[th].tbl, dbCall[th].osexts))
    /\ dbMutex' = DeferredUnlock(th)
    /\ UNCHANGED <<vvars, dvars, ivars, lvars, dbCallers, dbInputs, dbCall, dbInitialized,
                   dbMemtables, dbEngines, dbStarted>>

\* the caller of AddTable recovers the panic
PanicRecovered(th) ==
    /\ proc = "running"
    /\ th \in dbCallers
    /\ dbPc[th] = "panicking"
    /\ dbPc' = [dbPc EXCEPT ![th] = "idle"]
    /\ UNCHANGED <<vvars, dvars, ivars, lvars, dbCallers, dbInputs, dbCall, dbRet, dbInitialized,
                   dbSchemas, dbMemtables, dbMutex, dbEngines, dbStarted>>

\* nothing recovers the panic: the process ends
PanicUnrecovered(th) ==
    /\ proc = "running"
    /\ th \in dbCallers
    /\ dbPc[th] = "panicking"
    /\ proc' = "panicked"
    /\ UNCHANGED <<vvars, wvars, ivars, lvars, bvars>>

\* Initialize up to d.Lock()
InitializeEnter(th) ==
    /\ CanCall(th)
    /\ dbCall' = [dbCall EXCEPT ![th] = Started("Initialize", Nil, <<>>)]
    /\ dbStarted' = dbStarted + 1
    /\ IF InitializedGuard(dbInitialized)
       THEN /\ dbRet' = [dbRet EXCEPT ![th] = Return(ErrDatabaseInitialized, Nil)]
            /\ UNCHANGED dbPc
       ELSE /\ dbPc' = [dbPc EXCEPT ![th] = "Initialize.Lock"]
            /\ dbRet' = [dbRet EXCEPT ![th] = NoReturn]
    /\ UNCHANGED <<vvars, dvars, ivars, lvars, dbCallers, dbInputs, dbInitialized, dbSchemas,
                   dbMemtables, dbMutex, dbEngines>>

InitializeLock(th) == DatabaseLock(th, "Initialize.Lock", "Initialize.Body")

\* mem.NewTable(tblname, tblschema)
MemTable(tblname, tblschema) == [name |-> tblname, schema |-> tblschema]

\* the body of Initialize under the lock; eng.Init() returns nil or an error
InitializeBody(th) ==
    /\ proc = "running"
    /\ th \in dbCallers
    /\ dbPc[th] = "Initialize.Body"
    /\ dbMemtables' = [tblname \in (DOMAIN dbMemtables) \cup (DOMAIN dbSchemas) |->
                          IF tblname \in DOMAIN dbSchemas
                          THEN MemTable(tblname, dbSchemas[tblname])
                          ELSE dbMemtables[tblname]]
    /\ \E engInit \in {"nil", ErrEngineInit} :
          /\ dbRet' = [dbRet EXCEPT ![th] = Return(engInit, Nil)]
          /\ dbInitialized' = IF engInit = "nil" THEN TRUE ELSE dbInitialized
          /\ dbEngines' = IF engInit = "nil" THEN dbEngines + 1 ELSE dbEngines
    /\ dbMutex' = DeferredUnlock(th)
    /\ dbPc' = [dbPc EXCEPT ![th] = "idle"]
    /\ UNCHANGED <<vvars, dvars, ivars, lvars, dbCallers, dbInputs, dbCall, dbSchemas, dbStarted>>

\* Start: the check of d.initialized, then server.NewDefaultServer and
\* svr.Start(), which fails at once or serves
StartEnter(th) ==
    /\ CanCall(th)
    /\ dbCall' = [dbCall EXCEPT ![th] = Started("Start", Nil, <<>>)]
    /\ dbStarted' = dbStarted + 1
    /\ IF ~dbInitialized
       THEN /\ dbRet' = [dbRet EXCEPT ![th] = Return(ErrNotInitialized, Nil)]
            /\ UNCHANGED dbPc
       ELSE \/ /\ dbRet' = [dbRet EXCEPT ![th] = Return(ErrListen, Nil)]
               /\ UNCHANGED dbPc
            \/ /\ dbRet' = [dbRet EXCEPT ![th] = NoReturn]
               /\ dbPc' = [dbPc EXCEPT ![th] = "Start.Serve"]
    /\ UNCHANGED <<vvars, dvars, ivars, lvars, dbCallers, dbInputs, dbInitialized, dbSchemas,
                   dbMemtables, dbMutex, dbEngines>>

\* the server shuts down and Start returns
StartReturn(th) ==
    /\ proc = "running"
    /\ th \in dbCallers
    /\ dbPc[th] = "Start.Serve"
    /\ \E err \in {"nil", ErrListen} :
          dbRet' = [dbRet EXCEPT ![th] = Return(err, Nil)]
    /\ dbPc' = [dbPc EXCEPT ![th] = "idle"]
    /\ UNCHANGED <<vvars, dvars, ivars, lvars, dbCallers, dbInputs, dbCall, dbInitialized,
                   dbSchemas, dbMemtables, dbMutex, dbEngines, dbStarted>>

\* the goroutines that call the Database, none of them in a call
Callers(goroutines, inputs) ==
    /\ dbCallers = goroutines
    /\ dbInputs = inputs
    /\ dbPc = [th \in goroutines |-> "idle"]
    /\ dbCall = [th \in goroutines |-> Started("none", Nil, <<>>)]
    /\ dbRet = [th \in goroutines |-> NoReturn]

NextDatabase ==
    \E th \in dbCallers :
        \/ AddTableEnter(th)
        \/ AddTableLock(th)
        \/ AddTableBody(th)
        \/ PanicRecovered(th)
        \/ PanicUnrecovered(th)
        \/ InitializeEnter(th)
        \/ InitializeLock(th)
        \/ InitializeBody(th)
        \/ StartEnter(th)
        \/ StartReturn(th)

----------------------------------------------------------------------------
(* Specifications *)

\* no table file is being visited
VisitIdle ==
    /\ vfile = <<>>
    /\ vpos = 0
    /\ vtable = NewTableFor(VisitedPath)
    /\ vstatus = "running"
    /\ vbuilt = <<>>

\* a new Parser on which ParseDirectory was not called yet
NewParser ==
    /\ walked = {}
    /\ walkerPc = "idle"
    /\ walkErr = NoError
    /\ reschan = <<>>
    /\ reschanClosed = FALSE
    /\ errchan = <<>>
    /\ finchan = <<>>
    /\ mutex = "none"
    /\ aggPc = "idle"
    /\ callerPc = "start"
    /\ callerRet = NotReturned
    /\ Namespaces = EmptyMap
    /\ proc = "running"
    /\ emitted = {}
    /\ inserted = {}
    /\ exported = Nil
    /\ decoded = EmptyMap
    /\ fresh = EmptyMap
    /\ importPc = "new"

\* the visitor on one table file
Init ==
    /\ InitVisit
    /\ tree = {}
    /\ NewParser
    /\ PlatformsIdle
    /\ DatabaseIdle

Next == NextVisit

Spec == Init /\ [][Next]_vars

\* ParseDirectory on one directory tree, then the export of the Namespaces
\* and their re-import into a new Parser
InitDir ==
    /\ VisitIdle
    /\ tree \in Trees
    /\ NewParser
    /\ PlatformsIdle
    /\ DatabaseIdle

NextDir ==
    \/ ParseDirectory
    \/ AggregatorLock
    \/ AggregatorReceive
    \/ AggregatorRangeEnd
    \/ AggregatorUnlock
    \/ AggregatorFinish
    \/ WalkerSkip
    \/ WalkerEmit
    \/ WalkerParseError
    \/ WalkerPanic
    \/ WalkerWalkError
    \/ WalkerWalkDone
    \/ WalkerSendError
    \/ WalkerClose
    \/ SelectError
    \/ SelectFinished
    \/ ExportJSON
    \/ ExportYAML
    \/ ParseJSONSchemaFile
    \/ ParseYAMLSchemaFile

SpecDir == InitDir /\ [][NextDir]_vars

\* the steps of the walking goroutine and of the aggregator goroutine
WalkerNext ==
    \/ WalkerSkip
    \/ WalkerEmit
    \/ WalkerParseError
    \/ WalkerPanic
    \/ WalkerWalkError
    \/ WalkerWalkDone
    \/ WalkerSendError
    \/ WalkerClose

AggregatorNext ==
    \/ AggregatorLock
    \/ AggregatorReceive
    \/ AggregatorRangeEnd
    \/ AggregatorUnlock
    \/ AggregatorFinish

\* the Go scheduler runs every goroutine that can take a step, and the walk
\* of the directory goes on until it ends
SpecDirLive ==
    /\ InitDir
    /\ [][NextDir]_vars
    /\ WF_vars(WalkerNext)
    /\ WF_vars(AggregatorNext)

\* Schema.ExtractSchema up to the platform argument, on a new Schema
InitSchemaPlatforms ==
    /\ VisitIdle
    /\ tree = {}
    /\ NewParser
    /\ InitPlatforms
    /\ DatabaseIdle

NextPlatforms ==
    \/ SchemaParseLambda
    \/ SchemaExtractPlatforms

SpecPlatforms == InitSchemaPlatforms /\ [][NextPlatforms]_vars

\* one goroutine calling AddTable, Initialize and Start on a new Database
InitDatabase ==
    /\ VisitIdle
    /\ tree = {}
    /\ NewParser
    /\ PlatformsIdle
    /\ NewDatabase
    /\ Callers({"main"}, TableNames \X PlatformFilters)

SpecDatabase == InitDatabase /\ [][NextDatabase]_vars

\* two goroutines calling the same Database
InitDatabaseShared ==
    /\ VisitIdle
    /\ tree = {}
    /\ NewParser
    /\ PlatformsIdle
    /\ NewDatabase
    /\ Callers({"main", "other"}, {"groups", "flags"} \X {<<"linux">>})

SpecDatabaseShared == InitDatabaseShared /\ [][NextDatabase]_vars

\* a new Parser given a schema file that a user wrote
InitSchemaFile ==
    /\ VisitIdle
    /\ tree = {}
    /\ walked = {}
    /\ walkerPc = "idle"
    /\ walkErr = NoError
    /\ reschan = <<>>
    /\ reschanClosed = FALSE
    /\ errchan = <<>>
    /\ finchan = <<>>
    /\ mutex = "none"
    /\ aggPc = "idle"
    /\ callerPc = "start"
    /\ callerRet = NotReturned
    /\ Namespaces = EmptyMap
    /\ proc = "running"
    /\ emitted = {}
    /\ inserted = {}
    /\ exported \in SchemaFiles
    /\ decoded = EmptyMap
    /\ fresh = EmptyMap
    /\ importPc = "new"
    /\ PlatformsIdle
    /\ DatabaseIdle

NextSchemaFile ==
    \/ ParseJSONSchemaFile
    \/ ParseYAMLSchemaFile

SpecSchemaFile == InitSchemaFile /\ [][NextSchemaFile]_vars

----------------------------------------------------------------------------
(* Properties of Parser.ParseDirectory *)

\* C2: when the walked tree holds a malformed file (a schema call whose shape
\* makes an extraction handler fail), ParseDirectory returns to its caller,
\* and what it returns is a non-nil error that identifies that file's path.
C2_MalformedFileReported ==
    \A e \in MalformedFiles :
        (e \in tree /\ e.path \in walked) =>
            /\ proc = "running"
            /\ callerRet.returned =>
                   (~IsNil(callerRet.err) /\ callerRet.err.path = e.path)

\* C3: in every interleaving of the caller, the walker and the aggregator,
\* when the walk ended with an error ParseDirectory returns that error and
\* never nil.
C3_WalkErrorReturned ==
    (callerRet.returned /\ ~IsNil(walkErr)) => callerRet.err = walkErr

\* C4: whenever ParseDirectory returns nil the walk has finished, every Table
\* the walker emitted on the hand-off channel has been inserted into
\* Parser.Namespaces and the aggregator has released the write lock.
C4_NilMeansAggregated ==
    (callerRet.returned /\ IsNil(callerRet.err)) =>
        /\ walkerPc = "done"
        /\ reschan = <<>>
        /\ emitted = inserted
        /\ \A x \in emitted :
              /\ NamespaceIDOf(x.path) \in DOMAIN Namespaces
              /\ x.name \in DOMAIN Namespaces[NamespaceIDOf(x.path)].Tables
        /\ mutex = "none"
        /\ aggPc = "done"

C4_Witness ==
    /\ callerRet.returned
    /\ IsNil(callerRet.err)
    /\ Cardinality(emitted) >= 2
    /\ Cardinality(DOMAIN Namespaces) >= 2

\* C5: two files in different recognised subdirectories that declare the same
\* table name end up, once both are aggregated and whatever the order, as two
\* distinct Table entries, one in each subdirectory's namespace.
C5_SameNameInTwoNamespaces ==
    \A x, y \in inserted :
        (x.path.dir # y.path.dir /\ x.name = y.name) =>
            /\ {x.path.dir, y.path.dir} \subseteq DOMAIN Namespaces
            /\ x.name \in DOMAIN Namespaces[x.path.dir].Tables
            /\ y.name \in DOMAIN Namespaces[y.path.dir].Tables
            /\ Namespaces[x.path.dir].Tables[x.name].addr.a = x.path.dir
            /\ Namespaces[y.path.dir].Tables[y.name].addr.a = y.path.dir
            /\ Namespaces[x.path.dir].Tables[x.name].NamespaceID = x.path.dir
            /\ Namespaces[y.path.dir].Tables[y.name].NamespaceID = y.path.dir
            /\ Namespaces[x.path.dir].Tables[x.name].addr
                   # Namespaces[y.path.dir].Tables[y.name].addr

C5_Witness ==
    /\ callerRet.returned
    /\ \E x, y \in inserted :
          /\ x.path = FooSchemaFile("linux").path
          /\ y.path = FooSchemaFile("darwin").path
          /\ x.name = "foo"
          /\ y.name = "foo"

----------------------------------------------------------------------------
(* Claims about the export and the re-import *)

\* an interface{} value by what it holds: a py.Bool and a bool are the same
\* boolean, the None constant and an empty map are different values
VisibleValue(x) ==
    CASE x.t = "py.Bool" -> [is |-> "boolean", v |-> x.v]
      [] x.t = "bool" -> [is |-> "boolean", v |-> x.v]
      [] x.t = "string" -> [is |-> "string", v |-> x.v]
      [] x.t = "py.NoneType" -> [is |-> "none", v |-> FALSE]
      [] OTHER -> [is |-> "map", v |-> FALSE]

VisibleMap(m) == [k \in DOMAIN m |-> VisibleValue(m[k])]

\* the exported fields of a Column, a nil slice or map taken as an empty one
VisibleColumn(c) ==
    [Index |-> c.Index, Name |-> c.Name, Type |-> c.Type,
     Description |-> c.Description, Aliases |-> c.Aliases,
     Options |-> VisibleMap(c.Options)]

VisibleSchema(s) ==
    IF IsNil(s) THEN Nil
    ELSE [Platforms |-> s.Platforms, Extended |-> s.Extended,
          Columns |-> [i \in DOMAIN s.Columns |-> VisibleColumn(s.Columns[i])],
          ForeignKeys |-> [i \in DOMAIN s.ForeignKeys |-> VisibleMap(s.ForeignKeys[i])]]

VisibleTable(t) ==
    [NamespaceID |-> t.NamespaceID, Name |-> t.Name, Aliases |-> t.Aliases,
     Description |-> t.Description, Schema |-> VisibleSchema(t.Schema),
     Attributes |-> VisibleMap(t.Attributes), Implementation |-> t.Implementation,
     FuzzPaths |-> t.FuzzPaths,
     ExtendedSchemas |-> [k \in DOMAIN t.ExtendedSchemas |->
                             VisibleSchema(t.ExtendedSchemas[k])],
     Examples |-> t.Examples]

VisibleNamespace(ns) ==
    [Key |-> ns.Key, Name |-> ns.Name,
     Tables |-> [k \in DOMAIN ns.Tables |-> VisibleTable(ns.Tables[k])]]

Visible(namespaces) ==
    [k \in DOMAIN namespaces |-> VisibleNamespace(namespaces[k])]

\* every back-reference below a Namespace points at the object that holds it
BackReferencesOf(ns, parser) ==
    /\ ns.parser = parser
    /\ \A tname \in DOMAIN ns.Tables :
          LET table == ns.Tables[tname] IN
          /\ table.Namespace = ns.addr
          /\ IsNil(table.Schema) \/ table.Schema.Table = table.addr
          /\ \A esname \in DOMAIN table.ExtendedSchemas :
                table.ExtendedSchemas[esname].Table = table.addr

\* C7: the Namespaces that ParseDirectory produced, exported as JSON or YAML
\* and read back by ParseJSONSchemaFile or ParseYAMLSchemaFile into a new
\* Parser, give a Namespace map equal to the original one in every exported
\* field (namespaces, tables, schemas, extended schemas, columns, foreign
\* keys, platforms, attributes, examples), and its back-references are set
\* again by the injection.
C7_ExportImportRoundTrip ==
    importPc = "injected" =>
        /\ Visible(fresh) = Visible(Namespaces)
        /\ \A k \in DOMAIN fresh : BackReferencesOf(fresh[k], FreshParserPtr)

\* the round trip of a table with columns, a foreign key, an extended schema,
\* platforms and a column option has happened
C7_Witness ==
    /\ importPc = "injected"
    /\ \E k \in DOMAIN Namespaces : \E n \in DOMAIN Namespaces[k].Tables :
          LET t == Namespaces[k].Tables[n] IN
          /\ ~IsNil(t.Schema)
          /\ Len(t.Schema.Columns) > 0
          /\ Len(t.Schema.ForeignKeys) > 0
          /\ \E i \in DOMAIN t.Schema.Columns : DOMAIN t.Schema.Columns[i].Options # {}
    /\ \E k \in DOMAIN Namespaces : \E n \in DOMAIN Namespaces[k].Tables :
          LET t == Namespaces[k].Tables[n] IN
          /\ DOMAIN t.ExtendedSchemas # {}
          /\ \E e \in DOMAIN t.ExtendedSchemas : Len(t.ExtendedSchemas[e].Platforms) > 0

\* C8: after InjectTables(raw) has returned, every key k of raw is a key of
\* the Parser's Namespaces and holds the very object raw[k]; that Namespace
\* has its parser back-reference set; every table below it points back at
\* the Namespace, and the table's Schema and each of its ExtendedSchemas
\* point back at the table.
C8_InjectTablesBackReferences ==
    importPc = "injected" =>
        \A k \in DOMAIN decoded :
            /\ k \in DOMAIN fresh
            /\ fresh[k].addr = decoded[k].addr
            /\ DOMAIN fresh[k].Tables = DOMAIN decoded[k].Tables
            /\ \A n \in DOMAIN decoded[k].Tables :
                  fresh[k].Tables[n].addr = decoded[k].Tables[n].addr
            /\ ~IsNil(fresh[k].parser)
            /\ BackReferencesOf(fresh[k], FreshParserPtr)

\* an injection of two namespaces, with a table that has a Schema and a table
\* that has ExtendedSchemas
C8_Witness ==
    /\ importPc = "injected"
    /\ Cardinality(DOMAIN decoded) >= 2
    /\ \E k \in DOMAIN decoded : \E n \in DOMAIN decoded[k].Tables :
          ~IsNil(decoded[k].Tables[n].Schema)
    /\ \E k \in DOMAIN decoded : \E n \in DOMAIN decoded[k].Tables :
          DOMAIN decoded[k].Tables[n].ExtendedSchemas # {}

----------------------------------------------------------------------------
(* Properties of the platform argument *)

IsCategoryCall(o) ==
    /\ o.kind = "Call"
    /\ o.func.kind = "Name"
    /\ o.func.id \in DOMAIN TableCategories

Members(c) == Range(TableCategories[c])

NoDuplicates(seq) == Cardinality(Range(seq)) = Len(seq)

IsOrLambda(arg) ==
    /\ arg.kind = "Lambda"
    /\ arg.body.kind = "BoolOp"
    /\ arg.body.op = "Or"

Reversed(seq) == [i \in DOMAIN seq |-> seq[Len(seq) + 1 - i]]
Without(seq, i) == [j \in 1..(Len(seq) - 1) |-> IF j < i THEN seq[j] ELSE seq[j + 1]]

PlatformSetOf(values) ==
    Range(ParseLambda(PlatformReceiver, Lambda(BoolOp("Or", values))).s.Platforms)

\* C11: as a set operation the platform merge of ExtractSchema / ParseLambda
\* is idempotent and commutative. The Platforms a successful call leaves hold
\* no identifier twice; merging a category whose members the Platforms
\* already contain leaves the set as it is; merging two categories in either
\* order gives the same set; and the Platforms of a lambda are the same set
\* when its operands are taken in the opposite order, and the same set
\* without an operand whose members the earlier operands brought already.
C11_PlatformMergeIdempotentCommutative ==
    (~IsNil(lret) /\ lret.status = "ok") =>
        /\ NoDuplicates(lret.s.Platforms)
        /\ \A c \in DOMAIN TableCategories :
              Members(c) \subseteq Range(lret.s.Platforms) =>
                  /\ Range(MergePlatforms(lret.s, TableCategories[c]).Platforms)
                        = Range(lret.s.Platforms)
                  /\ NoDuplicates(MergePlatforms(lret.s, TableCategories[c]).Platforms)
        /\ \A c1, c2 \in DOMAIN TableCategories :
              Range(MergePlatforms(MergePlatforms(lret.s, TableCategories[c1]),
                                   TableCategories[c2]).Platforms)
                = Range(MergePlatforms(MergePlatforms(lret.s, TableCategories[c2]),
                                       TableCategories[c1]).Platforms)
        /\ IsOrLambda(larg) =>
              LET values == larg.body.values IN
              /\ Range(lret.s.Platforms) = PlatformSetOf(Reversed(values))
              /\ \A i \in 2..Len(values) :
                    (Members(values[i].func.id)
                        \subseteq UNION {Members(values[j].func.id) : j \in 1..(i - 1)})
                    => Range(lret.s.Platforms) = PlatformSetOf(Without(values, i))

\* ParseLambda returned nil for `lambda: POSIX() or LINUX()`: the second merge
\* met Platforms that hold every member of its category
C11_Witness ==
    /\ ~IsNil(lret)
    /\ lret.status = "ok"
    /\ IsOrLambda(larg)
    /\ larg.body.values = <<PlatformCall("POSIX", <<>>), PlatformCall("LINUX", <<>>)>>
    /\ Range(lret.s.Platforms) = {"linux", "darwin", "freebsd"}

\* C20: Schema.ParseLambda returns nil exactly when the body is a boolean OR
\* whose every operand is a call, without arguments, to a key of the category
\* table; for every other lambda it returns an error.
C20_ParseLambdaRejectsMalformed ==
    (~IsNil(lret) /\ larg.kind = "Lambda") =>
        (lret.status = "ok" <=>
            /\ IsOrLambda(larg)
            /\ \A i \in DOMAIN larg.body.values :
                  /\ IsCategoryCall(larg.body.values[i])
                  /\ larg.body.values[i].args = <<>>)

(***************************************************************************)
(* Claims about the virtual Database                                       *)
(***************************************************************************)

\* the sql columns of a declared column list, one by one
SqlColumns(columns, tablename) ==
    [i \in DOMAIN columns |-> ColumnToSQLSchema(columns[i], tablename).col]

RECURSIVE Flatten(_)
Flatten(seqs) == IF seqs = <<>> THEN <<>> ELSE Head(seqs) \o Flatten(Tail(seqs))

\* what each entry of the filter contributes
Contributions(t, filter) ==
    [i \in DOMAIN filter |->
        IF filter[i] \in DOMAIN t.ExtendedSchemas
        THEN SqlColumns(t.ExtendedSchemas[filter[i]].Columns, t.Name)
        ELSE <<>>]

\* the goroutine's last call was an AddTable whose ToSQLSchema returned
ToSQLSchemaReturned(th) ==
    /\ dbCall[th].op = "AddTable"
    /\ dbRet[th].err = "nil"

\* C12: Table.ToSQLSchema(platformFilter) returns the columns of the base
\* schema in declared order, then, entry by entry of the filter, the columns
\* of the extended schema registered under that entry, in declared order;
\* an entry that is no registered key adds nothing; the Table is unchanged.
C12_ToSQLSchemaOrder ==
    \A th \in dbCallers :
        ToSQLSchemaReturned(th) =>
            /\ dbSchemas[dbCall[th].tbl.Name] =
                   SqlColumns(dbCall[th].tbl.Schema.Columns, dbCall[th].tbl.Name)
                   \o Flatten(Contributions(dbCall[th].tbl, dbCall[th].osexts))
            /\ dbRet[th].tbl = dbCall[th].tbl

\* the processes table, exported for darwin then linux: two registered keys
\* with different columns
C12_Witness ==
    /\ ToSQLSchemaReturned("main")
    /\ dbCall["main"].tbl.Name = "processes"
    /\ dbCall["main"].osexts = <<"darwin", "linux">>
    /\ {"darwin", "linux"} \subseteq DOMAIN dbCall["main"].tbl.ExtendedSchemas
    /\ dbCall["main"].tbl.ExtendedSchemas["darwin"].Columns
           # dbCall["main"].tbl.ExtendedSchemas["linux"].Columns
    /\ Len(dbSchemas["processes"]) =
           Len(dbCall["main"].tbl.Schema.Columns)
           + Len(dbCall["main"].tbl.ExtendedSchemas["darwin"].Columns)
           + Len(dbCall["main"].tbl.ExtendedSchemas["linux"].Columns)

\* the type tokens the sql mapping knows
SupportedTokens ==
    {"TEXT", "DATE", "DATETIME", "INTEGER", "BIGINT", "UNSIGNED_BIGINT",
     "DOUBLE", "BLOB"}

TokensOf(columns) == {columns[i].Type : i \in DOMAIN columns}

\* the tokens ToSQLSchema(filter) maps for a Table with a base schema
MappedTokens(t, filter) ==
    TokensOf(t.Schema.Columns)
    \cup UNION {TokensOf(t.ExtendedSchemas[filter[i]].Columns) :
                  i \in {j \in DOMAIN filter : filter[j] \in DOMAIN t.ExtendedSchemas}}

\* the body of AddTable runs for goroutine th in this step
AddTableRuns(th) ==
    /\ dbPc[th] = "AddTable.Body"
    /\ dbPc'[th] # "AddTable.Body"

\* C13: extraction stores any type token; only the sql mapping fails, and
\* exactly for a token outside the eight known ones. A failed mapping leaves
\* the Table, the schema manifest and the engine's tables as they were before
\* the AddTable call, and the Database lock is released.
C13_TypeValidationDeferred ==
    [][\A th \in dbCallers :
          (AddTableRuns(th) /\ ~IsNil(dbCall[th].tbl.Schema)) =>
              IF MappedTokens(dbCall[th].tbl, dbCall[th].osexts) \subseteq SupportedTokens
              THEN dbRet'[th].err = "nil"
              ELSE /\ dbRet'[th].err = UnsupportedType
                   /\ dbRet'[th].tbl = dbCall[th].tbl
                   /\ dbSchemas' = dbSchemas
                   /\ dbMemtables' = dbMemtables
                   /\ dbInitialized' = dbInitialized
                   /\ dbMutex' = "none"]_vars

\* AddTable panicked on the VARCHAR column of the linux extended schema of
\* mounts after another table had been added; the caller recovered
C13_Witness ==
    /\ dbCall["main"].op = "AddTable"
    /\ dbCall["main"].tbl.Name = "mounts"
    /\ "VARCHAR" \in TokensOf(dbCall["main"].tbl.ExtendedSchemas["linux"].Columns)
    /\ dbCall["main"].osexts = <<"darwin", "linux">>
    /\ dbRet["main"].err = UnsupportedType
    /\ dbPc["main"] = "idle"
    /\ dbMutex = "none"
    /\ DOMAIN dbSchemas = {"groups"}

\* goroutine th starts a call of op in this step
Calls(th, op) ==
    /\ dbStarted' = dbStarted + 1
    /\ dbCall'[th].op = op
    /\ dbPc[th] = "idle"
    /\ dbCall' = [dbCall EXCEPT ![th] = dbCall'[th]]

\* the call th starts in this step also returns in it, with err
ReturnsAtOnce(th, err) ==
    /\ dbPc'[th] = "idle"
    /\ dbRet'[th].err = err

\* C14: with one caller, Start returns an error unless an Initialize has
\* succeeded before it; once an Initialize has succeeded, every AddTable and
\* every Initialize returns ErrDatabaseInitialized, and the schema manifest
\* and the in-memory tables do not change any more.
C14_SequentialLifecycle ==
    [][/\ \A th \in dbCallers :
             /\ (Calls(th, "Start") /\ dbEngines = 0) =>
                    ReturnsAtOnce(th, ErrNotInitialized)
             /\ ((Calls(th, "AddTable") \/ Calls(th, "Initialize")) /\ dbEngines > 0) =>
                    ReturnsAtOnce(th, ErrDatabaseInitialized)
       /\ dbEngines > 0 =>
             /\ dbSchemas' = dbSchemas
             /\ dbMemtables' = dbMemtables
             /\ dbEngines' = dbEngines]_vars

\* a table was added, Initialize succeeded and registered it, and the next
\* AddTable was turned away
C14_Witness ==
    /\ dbEngines = 1
    /\ dbInitialized
    /\ dbCall["main"].op = "AddTable"
    /\ dbRet["main"].err = ErrDatabaseInitialized
    /\ dbStarted = 3
    /\ DOMAIN dbSchemas # {}
    /\ DOMAIN dbMemtables = DOMAIN dbSchemas
    /\ dbCall["main"].tbl.Name \notin DOMAIN dbSchemas

\* C15: under any interleaving of concurrent AddTable and Initialize calls, at
\* most one Initialize installs an engine, and once one has, every table of
\* the schema manifest is registered in the engine's in-memory tables: no
\* AddTable adds to the manifest after an Initialize has completed.
C15_InitializedImmutableUnderConcurrency ==
    /\ dbEngines <= 1
    /\ dbEngines > 0 => DOMAIN dbSchemas \subseteq DOMAIN dbMemtables

(***************************************************************************)
(* Claims about the writers of the Namespace map                           *)
(***************************************************************************)

\* the walker, with the per-file parse, takes a step
WalkerSteps == walked' # walked \/ walkerPc' # walkerPc \/ emitted' # emitted

\* C16: in ParseDirectory every new Namespace and every insert into a
\* Namespace's Tables is made by the aggregator while it holds the Parser's
\* write lock, from a Table it received on the hand-off channel; the walker
\* and the per-file parse change no Namespace.
C16_SingleWriter ==
    [][/\ Namespaces' # Namespaces =>
             /\ mutex = "aggregator"
             /\ mutex' = "aggregator"
             /\ aggPc = "range"
             /\ reschan # <<>>
             /\ reschan' = Tail(reschan)
             /\ HandedOver(Head(reschan)) \in emitted
       /\ WalkerSteps => Namespaces' = Namespaces]_vars

\* the aggregator has inserted into two Namespaces under the lock while the
\* walker is still walking
C16_Witness ==
    /\ Cardinality(DOMAIN Namespaces) = 2
    /\ mutex = "aggregator"
    /\ aggPc = "range"
    /\ walkerPc = "walking"
    /\ Cardinality(inserted) >= 2

(***************************************************************************)
(* Claims about namespace identifiers                                      *)
(***************************************************************************)

\* every Table stored under key k carries k and belongs to a Namespace whose
\* Key is k
MirrorsKey(namespaces) ==
    \A k \in DOMAIN namespaces :
        \A n \in DOMAIN namespaces[k].Tables :
            /\ namespaces[k].Tables[n].NamespaceID = k
            /\ namespaces[k].Tables[n].Namespace = namespaces[k].addr
            /\ namespaces[k].Key = k

\* C17: after ParseDirectory and after InjectTables, every Table stored in
\* Parser.Namespaces[k].Tables has NamespaceID = k, and the Key of its owning
\* Namespace is k.
C17_NamespaceIDMirrorsKey ==
    /\ MirrorsKey(Namespaces)
    /\ MirrorsKey(fresh)

(***************************************************************************)
(* Claims about repeated schema and extended_schema calls                  *)
(***************************************************************************)

\* the walk is about to visit a call of the function name
Visits(name) ==
    /\ vstatus = "running"
    /\ vpos < Len(vfile)
    /\ Callee(vfile[vpos + 1]) = name
    /\ vpos' = vpos + 1

\* the Schemas that schema calls have built so far, in call order
BuiltBy(name) == SelectSeq(vbuilt, LAMBDA b : Callee(b.node) = name)

\* C18: a schema call visited while the table already has a base Schema
\* fails with the duplicate-schema error, and the base Schema stays the one
\* the first schema call built, columns and foreign keys included.
C18_DuplicateSchemaRejected ==
    [][(Visits("schema") /\ ~IsNil(vtable.Schema)) =>
           /\ vstatus' = "panicked"
           /\ vtable' = vtable
           /\ vtable'.Schema = BuiltBy("schema")[1].s
           /\ vbuilt' = vbuilt]_vars

\* a second, different schema call was turned away and the columns and the
\* foreign key of the first are still there
C18_Witness ==
    /\ vpos = 2
    /\ vstatus = "panicked"
    /\ Callee(vfile[1]) = "schema"
    /\ Callee(vfile[2]) = "schema"
    /\ vfile[1] # vfile[2]
    /\ Len(BuiltBy("schema")) = 1
    /\ vtable.Schema = vbuilt[1].s
    /\ Len(vtable.Schema.Columns) > 0
    /\ Len(vtable.Schema.ForeignKeys) > 0

\* C19: after a successful extended_schema call the Schema it built is
\* ExtendedSchemas[p] for every platform p it resolved to; a Schema that an
\* earlier call registered is replaced under those keys only, every other
\* entry is unchanged; a failing extended_schema call registers nothing.
C19_ExtendedSchemaRegistration ==
    [][Visits("extended_schema") =>
           IF vstatus' = "running"
           THEN /\ Len(vbuilt') = Len(vbuilt) + 1
                /\ LET built == vbuilt'[Len(vbuilt')].s IN
                   /\ built.Extended
                   /\ DOMAIN vtable'.ExtendedSchemas =
                          (DOMAIN vtable.ExtendedSchemas) \cup Range(built.Platforms)
                   /\ \A p \in Range(built.Platforms) :
                          vtable'.ExtendedSchemas[p] = built
                   /\ \A p \in (DOMAIN vtable.ExtendedSchemas) \ Range(built.Platforms) :
                          vtable'.ExtendedSchemas[p] = vtable.ExtendedSchemas[p]
           ELSE vtable'.ExtendedSchemas = vtable.ExtendedSchemas]_vars

\* two successful extended_schema calls that share the key linux: linux holds
\* the Schema of the second call, windows still that of the first, and the
\* second call added its own further key
C19_Witness ==
    /\ vpos = 2
    /\ vstatus = "running"
    /\ Len(vbuilt) = 2
    /\ Callee(vfile[1]) = "extended_schema"
    /\ Callee(vfile[2]) = "extended_schema"
    /\ vbuilt[1].s.Columns # vbuilt[2].s.Columns
    /\ "linux" \in Range(vbuilt[1].s.Platforms) \cap Range(vbuilt[2].s.Platforms)
    /\ \E p \in Range(vbuilt[1].s.Platforms) \ Range(vbuilt[2].s.Platforms) :
          vtable.ExtendedSchemas[p] = vbuilt[1].s
    /\ \E p \in Range(vbuilt[2].s.Platforms) \ Range(vbuilt[1].s.Platforms) :
          vtable.ExtendedSchemas[p] = vbuilt[2].s
    /\ vtable.ExtendedSchemas["linux"] = vbuilt[2].s

(***************************************************************************)
(* Claims about Tables without a base Schema                               *)
(***************************************************************************)

\* the goroutine's last call was an AddTable that got past the check of
\* d.initialized and has ended
AddTableEnded(th) ==
    /\ dbCall[th].op = "AddTable"
    /\ dbRet[th].err \notin {"none", ErrDatabaseInitialized}

\* C26: Table.ToSQLSchema, and with it Database.AddTable, completes for a
\* Table whose file has no schema call; the sql.Schema stored for it holds
\* only the columns of the extended schemas the filter selects.
C26_ToSQLSchemaWithoutBaseSchema ==
    \A th \in dbCallers :
        (AddTableEnded(th) /\ IsNil(dbCall[th].tbl.Schema)) =>
            /\ dbRet[th].err = "nil"
            /\ dbCall[th].tbl.Name \in DOMAIN dbSchemas
            /\ dbSchemas[dbCall[th].tbl.Name] =
                   Flatten(Contributions(dbCall[th].tbl, dbCall[th].osexts))

(***************************************************************************)
(* Claims about column declarations                                        *)
(***************************************************************************)

\* the call is schema([...]) and every element of the list is a Column call
\* with at least least positional arguments
DeclaresColumns(node, least) ==
    /\ Len(node.args) >= 1
    /\ node.args[1].kind = "List"
    /\ \A i \in DOMAIN node.args[1].elts :
          LET elt == node.args[1].elts[i] IN
          /\ elt.kind = "Call"
          /\ elt.func.kind = "Name"
          /\ elt.func.id = "Column"
          /\ Len(elt.args) >= least

\* the positional argument at position i when it has the kind, else nothing
ArgumentOf(elt, i, kind, field) ==
    IF Len(elt.args) >= i /\ elt.args[i].kind = kind THEN elt.args[i][field] ELSE ""

\* every element became one Column, with the fields its arguments give
OneColumnEach(columns, elts) ==
    /\ Len(columns) = Len(elts)
    /\ \A i \in DOMAIN elts :
          /\ columns[i].Name = ArgumentOf(elts[i], 1, "Str", "s")
          /\ columns[i].Type = ArgumentOf(elts[i], 2, "Name", "id")
          /\ columns[i].Description = ArgumentOf(elts[i], 3, "Str", "s")

\* C25: Schema.ExtractSchema does not fail on a column declaration with at
\* least one positional argument: each such element appends exactly one
\* Column, and a name, type or description argument that is missing or of
\* another kind leaves that field empty.
C25_ColumnDeclarationNeverFails ==
    [][(Visits("schema") /\ IsNil(vtable.Schema)
            /\ DeclaresColumns(vfile[vpos + 1], 1)) =>
           /\ vstatus' = "running"
           /\ ~IsNil(vtable'.Schema)
           /\ OneColumnEach(vtable'.Schema.Columns, vfile[vpos + 1].args[1].elts)]_vars

(***************************************************************************)
(* Claims about the shape of base and extended Schemas                     *)
(***************************************************************************)

\* the platform identifiers of the category table
CategoryMembers ==
    UNION {Range(TableCategories[c]) : c \in DOMAIN TableCategories}

\* C24: while every visited call has succeeded, each ExtendedSchemas[k] has
\* Extended = true and k among its Platforms, each key k is a platform of the
\* category table, and the base Schema, when there is one, has Extended =
\* false and no Platforms.
C24_SchemaShapes ==
    vstatus = "running" =>
        /\ \A k \in DOMAIN vtable.ExtendedSchemas :
              /\ vtable.ExtendedSchemas[k].Extended
              /\ k \in Range(vtable.ExtendedSchemas[k].Platforms)
              /\ k \in CategoryMembers
        /\ IsNil(vtable.Schema) \/
              (/\ ~vtable.Schema.Extended
               /\ vtable.Schema.Platforms = <<>>)

\* a base Schema with columns next to an extended Schema registered under
\* the four platforms of `lambda: WINDOWS() or LINUX()`
C24_Witness ==
    /\ vstatus = "running"
    /\ vpos = 2
    /\ ~IsNil(vtable.Schema)
    /\ Len(vtable.Schema.Columns) > 0
    /\ DOMAIN vtable.ExtendedSchemas = {"windows", "win32", "cygwin", "linux"}
    /\ Len(vtable.ExtendedSchemas["win32"].Platforms) = 4

(***************************************************************************)
(* Claims about name collisions and the end of an ingestion                *)
(***************************************************************************)

\* the aggregator records the SourceFile at the head of the channel
Records(src) ==
    /\ aggPc = "range"
    /\ reschan # <<>>
    /\ src = Head(reschan)
    /\ reschan' = Tail(reschan)
    /\ proc' = "running"

\* C21: when the aggregator records a Table, the Namespace of its
\* subdirectory holds that very Table under its name afterwards, replacing a
\* Table of the same name recorded before; a Namespace that exists already
\* is the same object afterwards, its other Tables are unchanged, and so is
\* every other Namespace.
C21_LastWriteWins ==
    [][\A src \in Range(reschan) :
          Records(src) =>
              LET k == NamespaceIDOf(src.Path)
                  name == src.Table.Name
              IN /\ DOMAIN Namespaces' = (DOMAIN Namespaces) \cup {k}
                 /\ \A j \in (DOMAIN Namespaces) \ {k} : Namespaces'[j] = Namespaces[j]
                 /\ Namespaces'[k].Tables[name].addr = src.Table.addr
                 /\ k \in DOMAIN Namespaces =>
                       /\ Namespaces'[k].addr = Namespaces[k].addr
                       /\ DOMAIN Namespaces'[k].Tables =
                              (DOMAIN Namespaces[k].Tables) \cup {name}
                       /\ \A n \in (DOMAIN Namespaces[k].Tables) \ {name} :
                              Namespaces'[k].Tables[n] = Namespaces[k].Tables[n]]_vars

\* two files of one subdirectory gave Tables of the same name, both were
\* recorded, and the Namespace also holds another Table
C21_Witness ==
    \E a \in inserted, b \in inserted :
        /\ a.addr # b.addr
        /\ a.name = b.name
        /\ NamespaceIDOf(a.path) = NamespaceIDOf(b.path)
        /\ Namespaces[NamespaceIDOf(a.path)].Tables[a.name].addr \in {a.addr, b.addr}
        /\ Cardinality(DOMAIN Namespaces[NamespaceIDOf(a.path)].Tables) = 2
        /\ Cardinality(inserted) = 3

\* C22: once ParseDirectory has returned, with nil or with an error, the
\* aggregator has ended and the Parser's write lock is free, and the
\* ingestion changes Parser.Namespaces no more.
C22_QuiescentAfterReturn ==
    [][callerPc = "returned" =>
           /\ aggPc = "done"
           /\ mutex = "none"
           /\ Namespaces' = Namespaces]_vars

\* both goroutines of ParseDirectory have ended: the channel is closed
\* and drained and the lock is free
BackgroundEnded ==
    /\ walkerPc = "done"
    /\ aggPc = "done"
    /\ reschanClosed
    /\ reschan = <<>>
    /\ mutex = "none"

\* C23: when the walk of the directory ends, both goroutines of
\* ParseDirectory end: the walker closes the hand-off channel, the aggregator
\* drains it and releases the lock, and neither stays blocked on errchan,
\* finchan or a full hand-off channel, whichever branch the caller's select
\* took (or the process has ended by a panic or by Logger.Fatalw).
C23_BackgroundTasksTerminate ==
    (walkerPc # "idle") ~> (BackgroundEnded \/ proc # "running")

\* the caller left through the error branch, and still both goroutines have
\* ended after the aggregator recorded a Table
C23_Witness ==
    /\ callerPc = "returned"
    /\ ~IsNil(callerRet.err)
    /\ BackgroundEnded
    /\ proc = "running"
    /\ inserted # {}

====
